---------------------------- MODULE Spec2Model ----------------------------
(***************************************************************************)
(* Portfolio valuation and market-data synchronisation engine              *)
(* (modules/market_service.py): the retry decorator, the quote client,     *)
(* the exchange-rate cache and the concurrent refresher.                   *)
(*                                                                         *)
(* The specifications share the variables:                                 *)
(*   Spec       auto_update_portfolio with its thread pool                 *)
(*   SpecRetry  one function wrapped by retry_with_backoff                 *)
(*   SpecFetch  fetch_single_price behind its retry decorator              *)
(*   SpecStale  check_is_outdated                                          *)
(*   SpecVal    get_market_data, one step per holding                      *)
(*   SpecRate   get_exchange_rate behind st.cache_data(ttl=3600)           *)
(*   SpecPool   the application's automatic refresh on a pool of given     *)
(*              size, repeated in a later session; SpecPoolFair is one     *)
(*              refresh with scheduled threads                             *)
(*   SpecApp    the runs of the application script with its cached table   *)
(***************************************************************************)
EXTENDS Integers, Sequences, FiniteSets, TLC

VARIABLES
    now,            \* the wall clock, in ticks
    \* ---- auto_update_portfolio ----
    portfolio,      \* the list object passed to auto_update_portfolio
    portfolio0,     \* its content when the call started (history)
    now0,           \* the clock when the call started (history)
    pc,             \* main thread: "idle", "collect", "returned", "raised",
                    \* "app_done" once the application has taken the result
    futures,        \* future_to_index: task number -> future record; `at`
                    \* is the clock when its result was collected (history)
    success_count,
    fail_count,
    ret,            \* what the call returned
    fetch_calls,    \* calls of the wrapped fetch_single_price (history)
    writes,         \* holding index -> number of result writes (history)
    \* ---- retry_with_backoff ----
    retry,          \* the wrapper's frame for one call
    retry_log,      \* the events of that call (history)
    \* ---- get_exchange_rate ----
    timer,          \* the cache's clock, in seconds
    cache,          \* st.cache_data's entry for get_exchange_rate
    lock,           \* holder of the entry's compute lock, 0 when free
    callers,        \* thread -> position in the cached call
    rate_log,       \* the finished calls of get_exchange_rate (history)
    \* ---- get_market_data ----
    target_currency,\* the display mode the caller asked for
    usd_twd_rate,   \* the exchange rate the caller passed, in tenths
    data_list,      \* the rows built so far
    frames,         \* the loop body's locals, one record per row (history)
    \* ---- one call of a pure function ----
    call_args,      \* its arguments
    call_result,    \* what it returned
    \* ---- the worker pool and the callers of the engine ----
    max_workers,    \* config.market_data.max_concurrent_updates, as read
    first_call,     \* the outcome of an earlier auto_update call (history)
    prev_call,      \* the outcome of an earlier get_market_data call (history)
    saved,          \* the calls of save_all_data (history)
    session,        \* st.session_state and the application state
    app             \* the locals of the application script's current run

vars == << now, portfolio, portfolio0, now0, pc, futures, success_count,
           fail_count, ret, fetch_calls, writes, retry, retry_log,
           timer, cache, lock, callers, rate_log,
           target_currency, usd_twd_rate, data_list, frames,
           call_args, call_result, max_workers, first_call, prev_call,
           saved, session, app >>

updVars   == << portfolio, portfolio0, now0, pc, futures, success_count,
                fail_count, ret, fetch_calls, writes >>
retryVars == << retry, retry_log >>
rateVars  == << timer, cache, lock, callers, rate_log >>
valVars   == << target_currency, usd_twd_rate, data_list, frames >>
fnVars    == << call_args, call_result >>
poolVars  == << max_workers, first_call >>
appVars   == << prev_call, saved, session, app >>

---------------------------------------------------------------------------
(* Bounds of the model *)

MaxHoldings == 2      \* longest holdings list
MaxTicks == 1         \* ticks the clock may advance during one call
MaxCallers == 2       \* threads calling get_exchange_rate
MaxRateCalls == 3     \* calls of get_exchange_rate
MaxRateTicks == 2     \* steps of the cache's clock
MaxValCalls == 2      \* consecutive calls of get_market_data
MaxWorkers == 1       \* largest configured size of the worker pool
MaxRuns == 3          \* runs of the application script in a session
TicksPerMinute == 2   \* clock resolution below the minute strftime keeps

(* Program constants *)

price_update_threshold_days == 1
max_concurrent_updates == 10
FetchRetries == 3
FetchBackoff == 2
CacheTTL == 3600
DefaultRetries == 3
DefaultBackoff == 1
default_exchange_rate == 325    \* 32.5, rates being counted in tenths

---------------------------------------------------------------------------
(* Time and the "%Y-%m-%d %H:%M" format *)

DayTicks == 24 * 60 * TicksPerMinute

\* The calls start in the last tick of a minute of the third day.
NowInit == 3 * DayTicks + TicksPerMinute - 1

\* A last_update value.  kind "ts" is a string in the "%Y-%m-%d %H:%M"
\* format, naming a minute; "na" is "N/A"; "empty" is ""; "bad" is any other
\* string; "none" is Python's None (the key is absent).
TsNone  == [kind |-> "none",  minute |-> 0]
TsNA    == [kind |-> "na",    minute |-> 0]
TsEmpty == [kind |-> "empty", minute |-> 0]
TsBad   == [kind |-> "bad",   minute |-> 0]

\* datetime.now().strftime("%Y-%m-%d %H:%M"): the seconds are dropped.
strftime(t) == [kind |-> "ts", minute |-> t \div TicksPerMinute]

\* datetime.strptime(s, "%Y-%m-%d %H:%M"), for a string that parses.
strptime(s) == s.minute * TicksPerMinute

TsTruthy(s) == s.kind \notin {"none", "empty"}

\* Mutant: a timestamp exactly one threshold old counts as stale.
check_is_outdated_AtThreshold(last_update_str, t) ==
    IF ~TsTruthy(last_update_str) \/ last_update_str = TsNA THEN TRUE
    ELSE IF last_update_str.kind # "ts" THEN TRUE
    ELSE t - strptime(last_update_str)
            >= price_update_threshold_days * DayTicks

check_is_outdated(last_update_str, t) ==
    IF ~TsTruthy(last_update_str) \/ last_update_str = TsNA THEN TRUE
    ELSE IF last_update_str.kind # "ts" THEN TRUE
    ELSE t - strptime(last_update_str)
            > price_update_threshold_days * DayTicks

---------------------------------------------------------------------------
(* Holdings: Python dicts, modelled as records whose fields are the keys   *)
(* present.                                                                *)

None == "None"

\* The legacy type names (Chinese in the source).
XianJin == "xianjin"     \* cash
FuZhai  == "fuzhai"      \* liability
MeiGu   == "meigu"       \* US stock

Truthy(s) == s # None /\ s # ""

Get(item, k) == IF k \in DOMAIN item THEN item[k] ELSE None
GetTs(item, k, default) == IF k \in DOMAIN item THEN item[k] ELSE default

Put(item, k, v) ==
    [f \in DOMAIN item \cup {k} |-> IF f = k THEN v ELSE item[f]]

TsFresh == strftime(NowInit - 60 * TicksPerMinute)
TsStale == strftime(NowInit - 2 * DayTicks)

\* Asset.to_dict(): the v3 schema, keyed by category and asset_type.
V3Holding(cat, atype, sym, price, upd) ==
    [category |-> cat, asset_type |-> atype, symbol |-> sym,
     quantity |-> 10, avg_cost |-> 150, currency |-> "USD",
     manual_price |-> price, last_update |-> upd]

\* The dict the asset form builds, keyed by asset_class.
FormHolding(aclass, sym, price, upd) ==
    [asset_class |-> aclass, symbol |-> sym,
     quantity |-> 10, avg_cost |-> 1, currency |-> "TWD",
     manual_price |-> price, last_update |-> upd]

\* A row of the legacy CSV, with the capitalised keys.
LegacyHolding(type, sym, price, upd) ==
    [Type |-> type, Ticker |-> sym, quantity |-> 10, avg_cost |-> 150,
     currency |-> "USD", Manual_Price |-> price, Last_Update |-> upd]

Holdings ==
    { V3Holding("investment", "Stock", "AAPL", 0, TsNA),
      V3Holding("investment", "Stock", "TSLA", 5, TsFresh),
      V3Holding("cash", XianJin, "CASH-TWD", 0, TsNA),
      FormHolding(FuZhai, "DEBT-TWD", 1, TsStale),
      LegacyHolding(MeiGu, "AAPL", 3, TsStale) }

Portfolios == UNION { [1..n -> Holdings] : n \in 0..MaxHoldings }

\* get_market_data's reading of a holding's class: the category key, or the
\* legacy type names.
IsFinancial(item) ==
    LET asset_type == IF Truthy(Get(item, "asset_type")) THEN item.asset_type
                      ELSE IF Truthy(Get(item, "asset_class"))
                           THEN item.asset_class
                      ELSE Get(item, "Type")
        category == IF Truthy(Get(item, "category")) THEN item.category
                    ELSE IF asset_type = FuZhai THEN "liability"
                    ELSE "investment"
    IN  category \in {"cash", "liability"} \/ asset_type \in {XianJin, FuZhai}

ItemLastUpdate(item) ==
    IF TsTruthy(GetTs(item, "last_update", TsNone)) THEN item.last_update
    ELSE GetTs(item, "Last_Update", TsNA)

ItemTicker(item) ==
    IF Truthy(Get(item, "symbol")) THEN item.symbol ELSE Get(item, "Ticker")

---------------------------------------------------------------------------
(* retry_with_backoff *)

NoValue == [kind |-> "none"]

NewWrapper == [x |-> 0, calls |-> 0, sleeps |-> 0, status |-> "running",
               value |-> NoValue]

\* Mutant: the retry count is compared one too late.
WrapperStep_ExtraRetry(w, out, retries) ==
    IF out.kind = "return"
    THEN [w EXCEPT !.calls = @ + 1, !.status = "returned", !.value = out]
    ELSE IF w.x = retries + 1
    THEN [w EXCEPT !.calls = @ + 1, !.status = "raised", !.value = out]
    ELSE [w EXCEPT !.calls = @ + 1, !.sleeps = @ + 1, !.x = @ + 1]

\* Mutant: the last failure is swallowed and None returned.
WrapperStep_Swallow(w, out, retries) ==
    IF out.kind = "return"
    THEN [w EXCEPT !.calls = @ + 1, !.status = "returned", !.value = out]
    ELSE IF w.x = retries
    THEN [w EXCEPT !.calls = @ + 1, !.status = "returned",
                   !.value = [kind |-> "return", val |-> None]]
    ELSE [w EXCEPT !.calls = @ + 1, !.sleeps = @ + 1, !.x = @ + 1]

\* One turn of the wrapper's while loop: call func, whose outcome is out
\* (kind "return" or "raise"); return its result, re-raise, or sleep and
\* count the retry.
WrapperStep(w, out, retries) ==
    IF out.kind = "return"
    THEN [w EXCEPT !.calls = @ + 1, !.status = "returned", !.value = out]
    ELSE IF w.x = retries
    THEN [w EXCEPT !.calls = @ + 1, !.status = "raised", !.value = out]
    ELSE [w EXCEPT !.calls = @ + 1, !.sleeps = @ + 1, !.x = @ + 1]

\* The sleep before the next attempt, jitter being random.uniform(0, 1).
SleepDelay(backoff_in_seconds, x, jitter) ==
    backoff_in_seconds * 2 ^ x + jitter


---------------------------------------------------------------------------
(* fetch_single_price: the body the retry decorator wraps *)

Prices == {7, 9}

\* What the quote source does during one attempt: stock.history() gives
\* rows (latest close `close`), gives no rows, or raises; fast_info gives
\* `fast` (0 for a missing or zero price) or raises.  `escapes` is an
\* unexpected exception raised while the handler of lines 167-169 runs,
\* the only way an exception leaves the body.
Response(hist, close, fast, fast_raises, escapes) ==
    [hist |-> hist, close |-> close, fast |-> fast,
     fast_raises |-> fast_raises, escapes |-> escapes]

Responses ==
    { Response("rows", p, 0, FALSE, FALSE) : p \in Prices }
      \cup { Response("empty", 0, p, FALSE, FALSE) : p \in Prices \cup {0} }
      \cup { Response("empty", 0, 0, TRUE, FALSE),
             Response("raise", 0, 0, FALSE, FALSE),
             Response("raise", 0, 0, FALSE, TRUE) }

PriceResult(ok, price, err) ==
    [kind |-> "return", ok |-> ok, price |-> price, err |-> err]

\* Mutant: an exception of the quote source leaves the body.
fetch_single_price_body_Propagate(resp) ==
    IF resp.hist = "raise"
    THEN [kind |-> "raise", exc |-> "unexpected"]
    ELSE IF resp.hist = "rows" THEN PriceResult(TRUE, resp.close, None)
    ELSE IF ~resp.fast_raises /\ resp.fast > 0
         THEN PriceResult(TRUE, resp.fast, None)
    ELSE PriceResult(FALSE, 0, "No Data")

\* Lines 149-169: the history lookup, the fast_info fallback, "No Data",
\* and the handler that turns an exception into a failed result.
fetch_single_price_body(resp) ==
    IF resp.hist = "raise"
    THEN IF resp.escapes THEN [kind |-> "raise", exc |-> "unexpected"]
         ELSE PriceResult(FALSE, 0, "exception text")
    ELSE IF resp.hist = "rows" THEN PriceResult(TRUE, resp.close, None)
    ELSE IF ~resp.fast_raises /\ resp.fast > 0
         THEN PriceResult(TRUE, resp.fast, None)
    ELSE PriceResult(FALSE, 0, "No Data")

---------------------------------------------------------------------------
(* auto_update_portfolio *)

\* Lines 207-220: the holdings the scan selects, as a sequence of indices.
RECURSIVE ScanFrom(_, _, _)
ScanFrom(p, i, t) ==
    IF i > Len(p) THEN << >>
    ELSE LET item == p[i]
             atype == IF Truthy(Get(item, "asset_class"))
                      THEN item.asset_class ELSE Get(item, "Type")
         IN  IF atype \in {XianJin, FuZhai} THEN ScanFrom(p, i + 1, t)
             ELSE IF check_is_outdated(ItemLastUpdate(item), t)
                  THEN << i >> \o ScanFrom(p, i + 1, t)
             ELSE ScanFrom(p, i + 1, t)

outdated_items(p, t) == ScanFrom(p, 1, t)

\* Mutant: the price is written, the time of the update is not.
UpdateItem_KeepTimestamp(item, price, t) ==
    LET a == Put(item, "manual_price", price)
    IN  IF "Manual_Price" \in DOMAIN a
        THEN Put(a, "Manual_Price", price) ELSE a

\* Lines 249-254: the writes of a successful result.
UpdateItem(item, price, t) ==
    LET a == Put(Put(item, "manual_price", price), "last_update", strftime(t))
        b == IF "Manual_Price" \in DOMAIN a
             THEN Put(a, "Manual_Price", price) ELSE a
    IN  IF "Last_Update" \in DOMAIN b
        THEN Put(b, "Last_Update", b.last_update) ELSE b

\* Mutant: an exception held by a future is not counted.
ApplyResult_RaiseNotCounted(st, index, result, t) ==
    IF result.kind = "raise" THEN st
    ELSE IF result.ok
    THEN [st EXCEPT !.portfolio[index] = UpdateItem(@, result.price, t),
                    !.success_count = @ + 1,
                    !.writes[index] = @ + 1]
    ELSE [st EXCEPT !.fail_count = @ + 1]

\* Mutant: the price of a failed result is written too.
ApplyResult_WriteOnFailure(st, index, result, t) ==
    IF result.kind = "raise"
    THEN [st EXCEPT !.fail_count = @ + 1]
    ELSE IF result.ok
    THEN [st EXCEPT !.portfolio[index] = UpdateItem(@, result.price, t),
                    !.success_count = @ + 1,
                    !.writes[index] = @ + 1]
    ELSE [st EXCEPT !.portfolio[index] = UpdateItem(@, result.price, t),
                    !.fail_count = @ + 1]

\* Mutant: the result is written to the first holding, not to the one the
\* future was submitted for.
ApplyResult_WrongIndex(st, index, result, t) ==
    IF result.kind = "raise"
    THEN [st EXCEPT !.fail_count = @ + 1]
    ELSE IF result.ok
    THEN [st EXCEPT !.portfolio[1] = UpdateItem(@, result.price, t),
                    !.success_count = @ + 1,
                    !.writes[1] = @ + 1]
    ELSE [st EXCEPT !.fail_count = @ + 1]

\* Mutant: future.result() is called outside the try block.
ApplyResult_NoCatch(st, index, result, t) ==
    IF result.kind = "raise"
    THEN [st EXCEPT !.pc = "raised"]
    ELSE IF result.ok
    THEN [st EXCEPT !.portfolio[index] = UpdateItem(@, result.price, t),
                    !.success_count = @ + 1,
                    !.writes[index] = @ + 1]
    ELSE [st EXCEPT !.fail_count = @ + 1]

\* Lines 242-263: what the collecting loop does with one finished future.
\* st holds the list and the counters; the result is their new value.
ApplyResult(st, index, result, t) ==
    IF result.kind = "raise"
    THEN [st EXCEPT !.fail_count = @ + 1]
    ELSE IF result.ok
    THEN [st EXCEPT !.portfolio[index] = UpdateItem(@, result.price, t),
                    !.success_count = @ + 1,
                    !.writes[index] = @ + 1]
    ELSE [st EXCEPT !.fail_count = @ + 1]

\* What the future holds once the wrapped call has ended: the returned
\* tuple, or the exception.
FutureResult(w) ==
    IF w.status = "raised" THEN [kind |-> "raise", exc |-> w.value.exc]
    ELSE w.value

Running == { t \in DOMAIN futures : futures[t].state = "running" }

\* Mutant: the pool starts a thread for every task.
WorkerFree_Unbounded(running, workers) == TRUE

\* ThreadPoolExecutor(max_workers=...): a task starts only on a free worker.
WorkerFree(running, workers) == Cardinality(running) < workers

\* Lines 207-238: the scan, the early return, the submission of one task
\* per selected holding.
AutoUpdateCall ==
    /\ pc = "idle"
    /\ LET items == outdated_items(portfolio, now) IN
        /\ portfolio0' = portfolio
        /\ now0' = now
        /\ success_count' = 0
        /\ fail_count' = 0
        /\ writes' = [i \in 1..Len(portfolio) |-> 0]
        /\ IF items = << >>
           THEN /\ pc' = "returned"
                /\ ret' = [success |-> 0, fail |-> 0, list |-> "portfolio"]
                /\ futures' = << >>
           ELSE /\ pc' = "collect"
                /\ ret' = NoValue
                /\ futures' = [t \in 1..Len(items) |->
                                 [index |-> items[t],
                                  ticker |-> ItemTicker(portfolio[items[t]]),
                                  state |-> "pending", w |-> NewWrapper,
                                  result |-> NoValue, at |-> 0]]
    /\ UNCHANGED << now, portfolio, fetch_calls, retryVars, rateVars, valVars, fnVars,
                poolVars, appVars >>

\* A worker thread of the pool takes the oldest task of its work queue.
TaskStart(t) ==
    /\ pc = "collect"
    /\ futures[t].state = "pending"
    /\ \A u \in 1..(t - 1) : futures[u].state # "pending"
    /\ WorkerFree(Running, max_workers)
    /\ futures' = [futures EXCEPT ![t].state = "running"]
    /\ fetch_calls' = fetch_calls + 1
    /\ UNCHANGED << now, portfolio, portfolio0, now0, pc, success_count,
                    fail_count, ret, writes, retryVars, rateVars, valVars, fnVars,
                poolVars, appVars >>

\* One attempt of the wrapped fetch_single_price inside its task.
TaskAttempt(t) ==
    /\ pc = "collect"
    /\ futures[t].state = "running"
    /\ \E out \in { fetch_single_price_body(resp) : resp \in Responses } :
         LET w == WrapperStep(futures[t].w, out, FetchRetries)
         IN  futures' = [futures EXCEPT ![t] =
                           IF w.status = "running" THEN [@ EXCEPT !.w = w]
                           ELSE [@ EXCEPT !.w = NewWrapper, !.state = "done",
                                          !.result = FutureResult(w)]]
    /\ UNCHANGED << now, portfolio, portfolio0, now0, pc, success_count,
                    fail_count, ret, fetch_calls, writes, retryVars,
                    rateVars, valVars, fnVars, poolVars, appVars >>

\* The latest instant a call that started at now0 reads the clock; the
\* refresh of a later session is followed with the clock standing still.
ClockLimit == IF first_call = NoValue THEN now0 + MaxTicks ELSE now

\* as_completed hands the main thread a finished future; the clock read at
\* line 250 is some time not before the last reading.
Collect(t) ==
    /\ pc = "collect"
    /\ futures[t].state = "done"
    /\ now' \in now .. ClockLimit
    /\ LET st == ApplyResult([portfolio |-> portfolio,
                              success_count |-> success_count,
                              fail_count |-> fail_count,
                              writes |-> writes, pc |-> pc],
                             futures[t].index, futures[t].result, now')
       IN  /\ portfolio' = st.portfolio
           /\ success_count' = st.success_count
           /\ fail_count' = st.fail_count
           /\ writes' = st.writes
           /\ pc' = st.pc
    /\ futures' = [futures EXCEPT ![t].state = "collected", ![t].at = now']
    /\ UNCHANGED << portfolio0, now0, ret, fetch_calls, retryVars, rateVars, valVars, fnVars,
                poolVars, appVars >>

\* Mutant: the loop ends with the first collected future.
LoopExhausted_FirstCompleted(fs) ==
    \E t \in DOMAIN fs : fs[t].state = "collected"

\* Lines 241 and 233: as_completed has yielded every future of
\* future_to_index, and the with block has waited for the pool.
LoopExhausted(fs) == \A t \in DOMAIN fs : fs[t].state = "collected"

\* Lines 265-266, after the executor has shut down.
AutoUpdateReturn ==
    /\ pc = "collect"
    /\ LoopExhausted(futures)
    /\ pc' = "returned"
    /\ ret' = [success |-> success_count, fail |-> fail_count,
               list |-> "portfolio"]
    /\ UNCHANGED << now, portfolio, portfolio0, now0, futures, success_count,
                    fail_count, fetch_calls, writes, retryVars, rateVars, valVars, fnVars,
                poolVars, appVars >>

RetryIdle == [w |-> [NewWrapper EXCEPT !.status = "idle"],
              retries |-> 0, backoff |-> 0]
CacheEmpty == [present |-> FALSE, value |-> 0, stored_at |-> 0]
RateLogEmpty == [calls |-> << >>, started |-> 0, ticks |-> 0]
\* get_market_data has not been called; no pure function has been called
ValIdle ==
    /\ target_currency = "TWD"
    /\ usd_twd_rate = default_exchange_rate
    /\ data_list = << >>
    /\ frames = << >>
FnIdle ==
    /\ call_args = NoValue
    /\ call_result = NoValue
\* The pool has the configured size; the engine has no caller.
PoolIdle ==
    /\ max_workers = max_concurrent_updates
    /\ first_call = NoValue
AppIdle ==
    /\ prev_call = NoValue
    /\ saved = << >>
    /\ session = NoValue
    /\ app = NoValue

Init ==
    /\ now = NowInit
    /\ portfolio \in Portfolios
    /\ portfolio0 = portfolio
    /\ now0 = now
    /\ pc = "idle"
    /\ futures = << >>
    /\ success_count = 0
    /\ fail_count = 0
    /\ ret = NoValue
    /\ fetch_calls = 0
    /\ writes = [i \in 1..Len(portfolio) |-> 0]
    /\ retry = RetryIdle
    /\ retry_log = << >>
    /\ timer = 0
    /\ cache = CacheEmpty
    /\ lock = 0
    /\ callers = << >>
    /\ rate_log = RateLogEmpty
    /\ ValIdle
    /\ FnIdle
    /\ PoolIdle
    /\ AppIdle

Next ==
    \/ AutoUpdateCall
    \/ \E t \in DOMAIN futures : TaskStart(t)
    \/ \E t \in DOMAIN futures : TaskAttempt(t)
    \/ \E t \in DOMAIN futures : Collect(t)
    \/ AutoUpdateReturn

Spec == Init /\ [][Next]_vars

---------------------------------------------------------------------------
(* SpecRetry: one function behind retry_with_backoff.  The function is any *)
(* callable: each call returns a value or raises an exception.            *)

FuncOutcomes ==
    { [kind |-> "return", val |-> v] : v \in {"r1", "r2"} }
      \cup { [kind |-> "raise", exc |-> e] : e \in {"e1", "e2"} }

\* The decorator's arguments: retries=3, backoff_in_seconds=2 at lines 49
\* and 136, and the defaults of line 27.
RetryConfigs ==
    { [retries |-> FetchRetries, backoff |-> FetchBackoff],
      [retries |-> DefaultRetries, backoff |-> DefaultBackoff] }

\* The wrapped function is called.
RetryCall ==
    /\ retry.w.status # "running"
    /\ \E cfg \in RetryConfigs :
         retry' = [w |-> NewWrapper, retries |-> cfg.retries,
                   backoff |-> cfg.backoff]
    /\ retry_log' = << >>
    /\ UNCHANGED << now, updVars, rateVars, valVars, fnVars, poolVars, appVars >>

\* One turn of the wrapper's loop; the log keeps the call and, when the
\* wrapper goes on, the sleep that follows it.
RetryAttempt ==
    /\ retry.w.status = "running"
    /\ \E out \in FuncOutcomes, jitter \in {0, 1} :
         LET w == WrapperStep(retry.w, out, retry.retries)
             call == [ev |-> "call", out |-> out, delay |-> 0]
             sleep == [ev |-> "sleep", out |-> NoValue,
                       delay |-> SleepDelay(retry.backoff, retry.w.x, jitter)]
         IN  /\ retry' = [retry EXCEPT !.w = w]
             /\ retry_log' = IF w.sleeps > retry.w.sleeps
                             THEN retry_log \o << call, sleep >>
                             ELSE Append(retry_log, call)
    /\ UNCHANGED << now, updVars, rateVars, valVars, fnVars, poolVars, appVars >>

InitRetry ==
    /\ now = NowInit
    /\ portfolio = << >>
    /\ portfolio0 = << >>
    /\ now0 = now
    /\ pc = "idle"
    /\ futures = << >>
    /\ success_count = 0
    /\ fail_count = 0
    /\ ret = NoValue
    /\ fetch_calls = 0
    /\ writes = << >>
    /\ retry = RetryIdle
    /\ retry_log = << >>
    /\ timer = 0
    /\ cache = CacheEmpty
    /\ lock = 0
    /\ callers = << >>
    /\ rate_log = RateLogEmpty
    /\ ValIdle
    /\ FnIdle
    /\ PoolIdle
    /\ AppIdle

NextRetry == RetryCall \/ RetryAttempt

SpecRetry == InitRetry /\ [][NextRetry]_vars


---------------------------------------------------------------------------
(* SpecFetch: calls of fetch_single_price, the body of lines 149-169       *)
(* behind retry_with_backoff(retries=3, backoff_in_seconds=2).             *)

Tickers == {"AAPL", "TSLA"}

\* fetch_single_price(ticker) is called.
FetchCall ==
    /\ retry.w.status # "running"
    /\ \E ticker \in Tickers : call_args' = [ticker |-> ticker]
    /\ call_result' = NoValue
    /\ retry' = [w |-> NewWrapper, retries |-> FetchRetries,
                 backoff |-> FetchBackoff]
    /\ retry_log' = << >>
    /\ UNCHANGED << now, updVars, rateVars, valVars, poolVars, appVars >>

\* One turn of the wrapper's loop around the body: the quote source
\* answers with resp; the log keeps the answer and the body's outcome.
FetchAttempt ==
    /\ retry.w.status = "running"
    /\ \E resp \in Responses, jitter \in {0, 1} :
         LET out == fetch_single_price_body(resp)
             w == WrapperStep(retry.w, out, retry.retries)
             call == [ev |-> "call", out |-> out, delay |-> 0, resp |-> resp]
             sleep == [ev |-> "sleep", out |-> NoValue,
                       delay |-> SleepDelay(retry.backoff, retry.w.x, jitter),
                       resp |-> NoValue]
         IN  /\ retry' = [retry EXCEPT !.w = w]
             /\ retry_log' = IF w.sleeps > retry.w.sleeps
                             THEN retry_log \o << call, sleep >>
                             ELSE Append(retry_log, call)
             /\ call_result' = IF w.status = "running" THEN NoValue
                               ELSE FutureResult(w)
    /\ UNCHANGED << now, updVars, rateVars, valVars, call_args, poolVars, appVars >>

NextFetch == FetchCall \/ FetchAttempt

SpecFetch == InitRetry /\ [][NextFetch]_vars

---------------------------------------------------------------------------
(* SpecStale: calls of check_is_outdated, at any instant of a few minutes  *)
(* around NowInit and for last_update strings on both sides of the         *)
(* threshold.                                                              *)

StaleClocks == (NowInit - 2 * TicksPerMinute) .. (NowInit + 2 * TicksPerMinute)

\* The minute the clock of NowInit shows.
NowMinute == NowInit \div TicksPerMinute

LastUpdateStrings ==
    { TsNone, TsNA, TsEmpty, TsBad, TsFresh, TsStale }
      \cup { [kind |-> "ts",
              minute |-> NowMinute
                           - price_update_threshold_days * 24 * 60 + d]
             : d \in -3 .. 3 }
      \cup { [kind |-> "ts", minute |-> NowMinute + d] : d \in 0 .. 1 }

\* check_is_outdated(last_update_str) is called; datetime.now() reads now.
CheckIsOutdated ==
    /\ \E s \in LastUpdateStrings :
          /\ call_args' = [last_update_str |-> s]
          /\ call_result' = [kind |-> "return",
                             val |-> check_is_outdated(s, now)]
    /\ UNCHANGED << now, updVars, retryVars, rateVars, valVars, poolVars, appVars >>

\* No call of auto_update_portfolio, of a wrapped function or of
\* get_exchange_rate is under way.
UpdIdle ==
    /\ pc = "idle"
    /\ futures = << >>
    /\ success_count = 0
    /\ fail_count = 0
    /\ ret = NoValue
    /\ fetch_calls = 0
RetryRateIdle ==
    /\ retry = RetryIdle
    /\ retry_log = << >>
    /\ timer = 0
    /\ cache = CacheEmpty
    /\ lock = 0
    /\ callers = << >>
    /\ rate_log = RateLogEmpty

InitStale ==
    /\ now \in StaleClocks
    /\ now0 = now
    /\ portfolio = << >>
    /\ portfolio0 = << >>
    /\ writes = << >>
    /\ UpdIdle
    /\ RetryRateIdle
    /\ ValIdle
    /\ FnIdle
    /\ PoolIdle
    /\ AppIdle

NextStale == CheckIsOutdated

SpecStale == InitStale /\ [][NextStale]_vars

---------------------------------------------------------------------------
(* get_market_data: the arithmetic.  A float is modelled as an exact       *)
(* rational [n, d] in lowest terms with d > 0; a division by zero gives    *)
(* DivError, Python's ZeroDivisionError.                                   *)

RECURSIVE GCD(_, _)
GCD(a, b) == IF b = 0 THEN a ELSE GCD(b, a % b)

Abs(x) == IF x < 0 THEN -x ELSE x

Rat(n, d) ==
    LET g == GCD(Abs(n), Abs(d))
        s == IF d < 0 THEN -1 ELSE 1
    IN  [n |-> (s * n) \div g, d |-> (s * d) \div g]

Q(x) == [n |-> x, d |-> 1]

DivError == [n |-> 0, d |-> 0]

\* An operand that is DivError stands for a statement never reached.
RMul(a, b) ==
    IF a = DivError \/ b = DivError THEN DivError
    ELSE Rat(a.n * b.n, a.d * b.d)
RSub(a, b) ==
    IF a = DivError \/ b = DivError THEN DivError
    ELSE Rat(a.n * b.d - b.n * a.d, a.d * b.d)
RNeg(a) == [n |-> -a.n, d |-> a.d]
RDiv(a, b) == IF b.n = 0 THEN DivError ELSE Rat(a.n * b.d, a.d * b.n)
RPos(a) == a.n > 0

\* usd_twd_rate is counted in tenths: 325 is the float 32.5.
RateOf(tenths) == Rat(tenths, 10)

---------------------------------------------------------------------------
(* get_market_data: reading one holding (lines 296-313) *)

ItemAssetType(item) ==
    IF Truthy(Get(item, "asset_type")) THEN item.asset_type
    ELSE IF Truthy(Get(item, "asset_class")) THEN item.asset_class
    ELSE Get(item, "Type")

ItemCategory(item) ==
    IF Truthy(Get(item, "category")) THEN item.category
    ELSE IF ItemAssetType(item) = FuZhai THEN "liability"
    ELSE "investment"

ItemCurrency(item) ==
    IF Truthy(Get(item, "currency")) THEN item.currency
    ELSE IF "Currency" \in DOMAIN item THEN item.Currency
    ELSE "USD"

\* item.get(k); if that is None, item.get(K, 0.0)
GetNumber(item, k, K) ==
    IF k \in DOMAIN item THEN item[k]
    ELSE IF K \in DOMAIN item THEN item[K]
    ELSE 0

ItemManualPrice(item) == GetNumber(item, "manual_price", "Manual_Price")
ItemQuantity(item) == GetNumber(item, "quantity", "Quantity")
ItemAvgCost(item) == GetNumber(item, "avg_cost", "Avg_Cost")

\* Line 392.
IsLiability(item) ==
    ItemCategory(item) = "liability" \/ ItemAssetType(item) = FuZhai

\* Asset._migrate_legacy_type: the category of a holding that carries no
\* category key.
migrate_legacy_category(old_type) ==
    IF old_type = XianJin THEN "cash"
    ELSE IF old_type = FuZhai THEN "liability"
    ELSE "investment"

\* Asset.from_dict: the category of the holding a dict stands for.
AssetCategory(item) ==
    IF Truthy(Get(item, "category")) THEN item.category
    ELSE IF Truthy(ItemAssetType(item))
    THEN migrate_legacy_category(ItemAssetType(item))
    ELSE "investment"

---------------------------------------------------------------------------
(* get_market_data: the price tiers (lines 315-374) *)

\* The status strings of lines 318, 331, 344, 360, 365 and 371.
StatusPending == "pending"
StatusManual == "manual"
StatusCached == "cached (24h)"
StatusLive == "live"
StatusManualStale == "manual/stale"
StatusCostOnly == "cost-only"

\* What stock.history(period="1mo") does: it raises, or gives the closes
\* of the month, oldest first (none for an unknown symbol).
HistRaise == [kind |-> "raise", close |-> << >>]
HistRows(closes) == [kind |-> "rows", close |-> closes]
Histories ==
    { HistRaise, HistRows(<< >>), HistRows(<< 7 >>), HistRows(<< 7, 9 >>),
      HistRows(<< 9, 7 >>), HistRows(<< 0, 9 >>) }

\* Mutant: a cash or liability holding without a price is priced at 0.
financial_price_NoFaceValue(manual_price) == Q(manual_price)

\* Lines 326-329.
financial_price(manual_price) ==
    IF manual_price > 0 THEN Q(manual_price) ELSE Q(1)

\* Mutant: the cached price is never used.
use_cached_Never(is_outdated, manual_price) == FALSE

\* Line 342.
use_cached(is_outdated, manual_price) == ~is_outdated /\ manual_price > 0

\* Mutant: the fallback ignores manual_price.
live_price_CostFirst(hist, manual_price, avg_cost) ==
    IF hist.kind = "rows" /\ Len(hist.close) > 0
    THEN LET raw_price == hist.close[Len(hist.close)]
             raw_prev == IF Len(hist.close) > 1
                         THEN hist.close[Len(hist.close) - 1]
                         ELSE raw_price
         IN  [current_price |-> Q(raw_price),
              daily_change_pct |-> IF raw_prev > 0
                                   THEN RDiv(Q(raw_price - raw_prev),
                                             Q(raw_prev))
                                   ELSE Q(0),
              status |-> StatusLive]
    ELSE [current_price |-> Q(avg_cost), daily_change_pct |-> Q(0),
          status |-> StatusCostOnly]

\* Lines 347-371: the live fetch and its fallbacks.
live_price(hist, manual_price, avg_cost) ==
    IF hist.kind = "rows" /\ Len(hist.close) > 0
    THEN LET raw_price == hist.close[Len(hist.close)]
             raw_prev == IF Len(hist.close) > 1
                         THEN hist.close[Len(hist.close) - 1]
                         ELSE raw_price
         IN  [current_price |-> Q(raw_price),
              daily_change_pct |-> IF raw_prev > 0
                                   THEN RDiv(Q(raw_price - raw_prev),
                                             Q(raw_prev))
                                   ELSE Q(0),
              status |-> StatusLive]
    ELSE IF manual_price > 0
    THEN [current_price |-> Q(manual_price), daily_change_pct |-> Q(0),
          status |-> StatusManualStale]
    ELSE [current_price |-> Q(avg_cost), daily_change_pct |-> Q(0),
          status |-> StatusCostOnly]

\* Lines 319-371: the price of one holding.  hist is what the quote source
\* would answer and t what the clock would show; quote_calls and checked
\* tell whether they were asked.
resolve_price(item, hist, t) ==
    LET manual_price == ItemManualPrice(item)
    IN  IF IsFinancial(item)
        THEN [current_price |-> financial_price(manual_price),
              daily_change_pct |-> Q(0), status |-> StatusManual,
              checked |-> FALSE, is_outdated |-> FALSE,
              quote_calls |-> 0]
        ELSE LET is_outdated == check_is_outdated(ItemLastUpdate(item), t)
             IN  IF use_cached(is_outdated, manual_price)
                 THEN [current_price |-> Q(manual_price),
                       daily_change_pct |-> Q(0), status |-> StatusCached,
                       checked |-> TRUE, is_outdated |-> is_outdated,
                       quote_calls |-> 0]
                 ELSE live_price(hist, manual_price, ItemAvgCost(item))
                        @@ [checked |-> TRUE, is_outdated |-> is_outdated,
                            quote_calls |-> 1]

---------------------------------------------------------------------------
(* get_market_data: conversion, metrics and display (lines 376-426) *)

\* Mutant: the zero rate is not guarded.
rate_multiplier_NoGuard(base_currency, asset_currency, rate) ==
    IF base_currency = "TWD" /\ asset_currency = "USD" THEN RateOf(rate)
    ELSE IF base_currency = "USD" /\ asset_currency = "TWD"
    THEN RDiv(Q(1), RateOf(rate))
    ELSE Q(1)

\* Lines 378-382.
rate_multiplier(base_currency, asset_currency, rate) ==
    IF base_currency = "TWD" /\ asset_currency = "USD" THEN RateOf(rate)
    ELSE IF base_currency = "USD" /\ asset_currency = "TWD"
    THEN IF rate > 0 THEN RDiv(Q(1), RateOf(rate)) ELSE Q(1)
    ELSE Q(1)

\* Mutant: the cost is not converted.
base_values_CostNotConverted(current_price, avg_cost, qty, m) ==
    [base_price |-> RMul(current_price, m),
     base_avg_cost |-> Q(avg_cost),
     market_value_base |-> RMul(RMul(current_price, m), Q(qty)),
     total_cost_base |-> RMul(Q(avg_cost), Q(qty))]

\* Lines 385-389.
base_values(current_price, avg_cost, qty, m) ==
    [base_price |-> RMul(current_price, m),
     base_avg_cost |-> RMul(Q(avg_cost), m),
     market_value_base |-> RMul(RMul(current_price, m), Q(qty)),
     total_cost_base |-> RMul(RMul(Q(avg_cost), m), Q(qty))]

\* Mutant: a liability is signed like an asset.
net_and_pl_Unsigned(is_liability, market_value_base, total_cost_base) ==
    [net_value_base |-> market_value_base,
     unrealized_pl_base |-> RSub(market_value_base, total_cost_base)]

\* Lines 392-401.
net_and_pl(is_liability, market_value_base, total_cost_base) ==
    [net_value_base |-> IF is_liability THEN RNeg(market_value_base)
                        ELSE market_value_base,
     unrealized_pl_base |-> IF is_liability
                            THEN RSub(total_cost_base, market_value_base)
                            ELSE RSub(market_value_base, total_cost_base)]

\* Mutant: the division is not guarded.
roi_pct_NoGuard(unrealized_pl_base, total_cost_base) ==
    RMul(RDiv(unrealized_pl_base, total_cost_base), Q(100))

\* Line 403.
roi_pct(unrealized_pl_base, total_cost_base) ==
    IF RPos(total_cost_base)
    THEN RMul(RDiv(unrealized_pl_base, total_cost_base), Q(100))
    ELSE Q(0)

\* Mutant: the native display shows converted values.
display_fields_AlwaysBase(target, current_price, avg_cost, qty, is_liability, b, pl) ==
    [display_price |-> b.base_price,
     display_cost_basis |-> b.base_avg_cost,
     display_market_value |-> b.market_value_base,
     display_total_cost |-> b.total_cost_base,
     display_pl |-> pl]

\* Lines 409-426; b holds the base values and pl is unrealized_pl_base.
display_fields(target, current_price, avg_cost, qty, is_liability, b, pl) ==
    IF target = "Auto"
    THEN LET display_market_value == RMul(current_price, Q(qty))
             display_total_cost == RMul(Q(avg_cost), Q(qty))
         IN  [display_price |-> current_price,
              display_cost_basis |-> Q(avg_cost),
              display_market_value |-> display_market_value,
              display_total_cost |-> display_total_cost,
              display_pl |-> IF is_liability
                             THEN RSub(display_total_cost,
                                       display_market_value)
                             ELSE RSub(display_market_value,
                                       display_total_cost)]
    ELSE [display_price |-> b.base_price,
          display_cost_basis |-> b.base_avg_cost,
          display_market_value |-> b.market_value_base,
          display_total_cost |-> b.total_cost_base,
          display_pl |-> pl]

\* Lines 295-426: the locals of one turn of the loop.
RowFrame(item, target, rate, hist, t) ==
    LET base_currency == IF target = "Auto" THEN "TWD" ELSE target
        asset_currency == ItemCurrency(item)
        qty == ItemQuantity(item)
        avg_cost == ItemAvgCost(item)
        p == resolve_price(item, hist, t)
        m == rate_multiplier(base_currency, asset_currency, rate)
        b == base_values(p.current_price, avg_cost, qty, m)
        is_liability == IsLiability(item)
        v == net_and_pl(is_liability, b.market_value_base,
                        b.total_cost_base)
        roi == roi_pct(v.unrealized_pl_base, b.total_cost_base)
        d == display_fields(target, p.current_price, avg_cost, qty,
                            is_liability, b, v.unrealized_pl_base)
    IN  [item |-> item, hist |-> hist, t |-> t,
         ticker |-> ItemTicker(item),
         asset_type |-> ItemAssetType(item),
         category |-> ItemCategory(item),
         asset_currency |-> asset_currency,
         manual_price |-> ItemManualPrice(item),
         last_update |-> ItemLastUpdate(item),
         qty |-> qty, avg_cost |-> avg_cost,
         base_currency |-> base_currency,
         rate_multiplier |-> m,
         is_liability |-> is_liability,
         roi |-> roi,
         display_curr_code |-> IF target = "Auto" THEN asset_currency
                               ELSE base_currency]
        @@ p @@ b @@ v @@ d

\* Mutant: an exception of the quote source leaves the loop.
FrameException_QuoteSource(f) ==
    IF f.quote_calls > 0 /\ f.hist.kind = "raise" THEN "Exception"
    ELSE None

\* The exception a turn of the loop ends with, None when it ends normally.
FrameException(f) ==
    IF DivError \in { f.rate_multiplier, f.roi, f.daily_change_pct }
    THEN "ZeroDivisionError" ELSE None

\* Lines 429-458: the row appended for a frame.
RowDict(f) ==
    [Category |-> f.category, Type |-> f.asset_type, Ticker |-> f.ticker,
     Quantity |-> f.qty,
     Current_Price |-> f.base_price,
     Market_Value |-> f.market_value_base,
     Net_Value |-> f.net_value_base,
     Total_Cost |-> f.total_cost_base,
     Unrealized_PL |-> f.unrealized_pl_base,
     Display_Price |-> f.display_price,
     Display_Cost_Basis |-> f.display_cost_basis,
     Display_Market_Value |-> f.display_market_value,
     Display_Total_Cost |-> f.display_total_cost,
     Display_PL |-> f.display_pl,
     Display_Currency |-> f.display_curr_code,
     ROI |-> f.roi,
     Daily_Change |-> RMul(f.daily_change_pct, Q(100)),
     Status |-> f.status,
     Avg_Cost |-> f.base_avg_cost,
     Currency |-> f.asset_currency,
     Last_Update |-> f.last_update]

---------------------------------------------------------------------------
(* SpecVal: one call of get_market_data(portfolio, target_currency,        *)
(* usd_twd_rate).  Each turn of its loop is one step: the turn may read    *)
(* the clock and may wait for the quote source.                            *)

\* The holdings of Holdings, a loan, a legacy cash row of quantity 0 and a
\* Taiwanese stock bought at no cost, in the order of a holdings list.
ValHoldings ==
    << V3Holding("investment", "Stock", "AAPL", 0, TsNA),
       FormHolding(FuZhai, "DEBT-TWD", 1, TsStale),
       V3Holding("cash", XianJin, "CASH-TWD", 0, TsNA),
       V3Holding("investment", "Stock", "TSLA", 5, TsFresh),
       [category |-> "investment", asset_type |-> "Stock",
        symbol |-> "2330.TW", quantity |-> 10, avg_cost |-> 0,
        currency |-> "TWD", manual_price |-> 0, last_update |-> TsFresh],
       V3Holding("liability", "Mortgage", "LOAN-USD", 100, TsFresh),
       Put(LegacyHolding(XianJin, "CASH-USD", 2, TsFresh), "quantity", 0),
       LegacyHolding(MeiGu, "AAPL", 3, TsStale) >>

\* The n holdings that follow the i-th one, the list being read as a ring.
Window(i, n) ==
    [k \in 1..n |-> ValHoldings[((i + k - 2) % Len(ValHoldings)) + 1]]

\* The holdings lists of a call: the empty list and every window of at
\* most MaxHoldings holdings.
ValPortfolios ==
    { << >> } \cup { Window(i, n) : i \in 1..Len(ValHoldings),
                                    n \in 1..MaxHoldings }

\* app.py line 522: the first word of the radio's choice.
Targets == {"Auto", "USD", "TWD"}

\* The rate passed by the caller, in tenths; 0 is the rate line 382 guards.
ValRates == {0, default_exchange_rate}

DataFrame(rows) == [kind |-> "DataFrame", rows |-> rows]

\* Mutant: a live price is written back to the holding.
RowEffect_WriteBack(p, i, f) ==
    IF f.status = StatusLive
    THEN [p EXCEPT ![i] = UpdateItem(@, f.current_price.n, f.t)]
    ELSE p

\* Lines 295-458 read the item with item.get and assign none of its keys:
\* the list after a turn of the loop.
RowEffect(p, i, f) == p

\* The number of the get_market_data call under way.
ValCalls == IF prev_call = NoValue THEN 1 ELSE prev_call.calls + 1

\* Lines 285-293: the call, and the early return for an empty list.
GetMarketDataCall ==
    /\ pc = "idle"
    /\ IF Len(portfolio) = 0
       THEN pc' = "returned" /\ ret' = DataFrame(<< >>)
       ELSE pc' = "loop" /\ ret' = ret
    /\ UNCHANGED << now, portfolio, portfolio0, now0, futures,
                    success_count, fail_count, fetch_calls, writes,
                    retryVars, rateVars, valVars, fnVars, poolVars, appVars >>

\* Lines 295-458: one turn of the loop.  t is the clock check_is_outdated
\* reads and hist the answer of the quote source, for the turns that ask.
GetMarketDataRow ==
    /\ pc = "loop"
    /\ Len(frames) < Len(portfolio)
    /\ \E t \in now .. (NowInit + MaxTicks), hist \in Histories :
         LET item == portfolio[Len(frames) + 1]
             f == RowFrame(item, target_currency, usd_twd_rate, hist, t)
             asked == f.quote_calls > 0
         IN  /\ ~f.checked => t = now
             /\ ~asked => hist = HistRaise
             /\ now' = t
             /\ frames' = Append(frames,
                                 [f EXCEPT !.hist = IF asked THEN hist
                                                    ELSE NoValue])
             /\ fetch_calls' = fetch_calls + f.quote_calls
             /\ IF FrameException(f) = None
                THEN /\ data_list' = Append(data_list, RowDict(f))
                     /\ pc' = pc
                ELSE /\ data_list' = data_list
                     /\ pc' = "raised"
             /\ portfolio' = RowEffect(portfolio, Len(frames) + 1, f)
    /\ UNCHANGED << portfolio0, now0, futures, success_count,
                    fail_count, ret, writes, retryVars, rateVars,
                    target_currency, usd_twd_rate, fnVars,
                    poolVars, appVars >>

\* Line 461.
GetMarketDataReturn ==
    /\ pc = "loop"
    /\ Len(frames) = Len(portfolio)
    /\ pc' = "returned"
    /\ ret' = DataFrame(data_list)
    /\ UNCHANGED << now, portfolio, portfolio0, now0, futures,
                    success_count, fail_count, fetch_calls, writes,
                    retryVars, rateVars, valVars, fnVars, poolVars, appVars >>

\* The caller calls get_market_data again, with the same list object and
\* arguments; prev_call keeps which holdings the call before found stale
\* and which it fetched.
GetMarketDataAgain ==
    /\ pc = "returned"
    /\ ValCalls < MaxValCalls
    /\ prev_call' = [calls |-> ValCalls,
                     stale |-> { i \in DOMAIN frames :
                                   frames[i].checked
                                     /\ frames[i].is_outdated },
                     fetched |-> { i \in DOMAIN frames :
                                     frames[i].quote_calls > 0 }]
    /\ pc' = "idle"
    /\ ret' = NoValue
    /\ fetch_calls' = 0
    /\ data_list' = << >>
    /\ frames' = << >>
    /\ UNCHANGED << now, portfolio, portfolio0, now0, futures,
                    success_count, fail_count, writes, retryVars, rateVars,
                    target_currency, usd_twd_rate, fnVars, poolVars,
                    saved, session, app >>

InitVal ==
    /\ now = NowInit
    /\ now0 = now
    /\ portfolio \in ValPortfolios
    /\ portfolio0 = portfolio
    /\ writes = << >>
    /\ UpdIdle
    /\ RetryRateIdle
    /\ target_currency \in Targets
    /\ usd_twd_rate \in ValRates
    /\ data_list = << >>
    /\ frames = << >>
    /\ FnIdle
    /\ PoolIdle
    /\ AppIdle

NextVal ==
    \/ GetMarketDataCall
    \/ GetMarketDataRow
    \/ GetMarketDataReturn
    \/ GetMarketDataAgain

SpecVal == InitVal /\ [][NextVal]_vars

---------------------------------------------------------------------------
(* SpecPool: the application's automatic refresh (app.py lines 258-289)    *)
(* on a pool of configured size, followed by the same refresh in a later   *)
(* session.  The engine's steps are those of Spec.                         *)

\* Two stale stocks and a fresh one, in the order of a holdings list.
PoolHoldings ==
    << V3Holding("investment", "Stock", "AAPL", 0, TsNA),
       LegacyHolding(MeiGu, "AAPL", 3, TsStale),
       V3Holding("investment", "Stock", "TSLA", 5, TsFresh) >>

PoolWindow(i, n) ==
    [k \in 1..n |-> PoolHoldings[((i + k - 2) % Len(PoolHoldings)) + 1]]

\* state.portfolio is not empty when the refresh runs (line 259).
PoolPortfolios ==
    { PoolWindow(i, n) : i \in 1..Len(PoolHoldings), n \in 1..MaxHoldings }

NewSession == [has_auto_updated |-> FALSE,
               force_refresh_market_data |-> FALSE]

\* Mutant: the data are saved after every refresh.
ShouldSave_Always(success, fail) == TRUE

\* Line 265: "if success > 0".
ShouldSave(success, fail) == success > 0

\* Lines 262-289: the application takes the result of auto_update_portfolio,
\* saves all data if a price was updated, and marks the session.
AppAfterUpdate ==
    /\ pc = "returned"
    /\ ~session.has_auto_updated
    /\ LET save == ShouldSave(ret.success, ret.fail)
       IN  /\ saved' = IF save THEN Append(saved, portfolio) ELSE saved
           /\ session' = [has_auto_updated |-> TRUE,
                          force_refresh_market_data |->
                              session.force_refresh_market_data \/ save]
    /\ pc' = "app_done"
    /\ UNCHANGED << now, portfolio, portfolio0, now0, futures, success_count,
                    fail_count, ret, fetch_calls, writes, retryVars,
                    rateVars, valVars, fnVars, poolVars, prev_call, app >>

\* The time between the return of one refresh and the start of the next:
\* a minute, or so long that the later refresh starts a minute, or a tick,
\* less than the threshold after the first one started.
AgainGaps ==
    { TicksPerMinute,
      price_update_threshold_days * DayTicks - MaxTicks - TicksPerMinute,
      price_update_threshold_days * DayTicks - MaxTicks - 1 }

\* What a later refresh has to know of the first one (history).
CallSummary ==
    [candidates |-> { futures[t].index : t \in DOMAIN futures },
     updated |-> { futures[t].index :
                     t \in { u \in DOMAIN futures :
                               futures[u].result.kind = "return"
                                 /\ futures[u].result.ok } },
     success |-> ret.success, fail |-> ret.fail,
     fetch_calls |-> fetch_calls,
     returned_at |-> now]

\* A later session starts: the refresh runs again on the same holdings.
AutoUpdateAgain ==
    /\ pc = "app_done"
    /\ first_call = NoValue
    /\ first_call' = CallSummary
    /\ \E gap \in AgainGaps : now' = now + gap
    /\ pc' = "idle"
    /\ session' = NewSession
    /\ futures' = << >>
    /\ ret' = NoValue
    /\ fetch_calls' = 0
    /\ UNCHANGED << portfolio, portfolio0, now0, success_count, fail_count,
                    writes, retryVars, rateVars, valVars, fnVars,
                    max_workers, prev_call, saved, app >>

InitPool ==
    /\ now = NowInit
    /\ now0 = now
    /\ portfolio \in PoolPortfolios
    /\ portfolio0 = portfolio
    /\ writes = [i \in 1..Len(portfolio) |-> 0]
    /\ UpdIdle
    /\ RetryRateIdle
    /\ ValIdle
    /\ FnIdle
    /\ max_workers \in 1..MaxWorkers
    /\ first_call = NoValue
    /\ prev_call = NoValue
    /\ saved = << >>
    /\ session = NewSession
    /\ app = NoValue

\* The steps of the engine.
PoolStep ==
    \/ AutoUpdateCall
    \/ \E t \in DOMAIN futures : TaskStart(t)
    \/ \E t \in DOMAIN futures : TaskAttempt(t)
    \/ \E t \in DOMAIN futures : Collect(t)
    \/ AutoUpdateReturn

NextPool == PoolStep \/ AppAfterUpdate \/ AutoUpdateAgain

SpecPool == InitPool /\ [][NextPool]_vars

\* One refresh: the threads of the pool and the main thread are scheduled,
\* and every call of the quote source returns or raises.
NextRefresh == PoolStep \/ AppAfterUpdate

SpecPoolFair == InitPool /\ [][NextRefresh]_vars /\ WF_vars(PoolStep)

---------------------------------------------------------------------------
(* SpecApp: the runs of the application script in one session, from the    *)
(* reading of the exchange rate to the tabs (app.py lines 508-568).        *)

RAdd(a, b) == RSub(a, RNeg(b))

\* df[col].sum()
RECURSIVE SumColumn(_, _, _)
SumColumn(rows, col, i) ==
    IF i > Len(rows) THEN Q(0)
    ELSE RAdd(rows[i][col], SumColumn(rows, col, i + 1))

\* Mutant: the total is the sum of the market values, liabilities included.
NetValueTotal_MarketValue(df) ==
    IF df.rows = << >> THEN Q(0) ELSE SumColumn(df.rows, "Market_Value", 1)

\* Lines 541 and 557: df_all["Net_Value"].sum() if not df_all.empty else 0.
NetValueTotal(df) ==
    IF df.rows = << >> THEN Q(0) ELSE SumColumn(df.rows, "Net_Value", 1)

\* One whole call of get_market_data, hists[i] being the answer of the
\* quote source for the i-th holding: the table, or the exception.
get_market_data(p, target, rate, hists, t) ==
    IF \E i \in 1..Len(p) :
          FrameException(RowFrame(p[i], target, rate, hists[i], t)) # None
    THEN [kind |-> "raise", rows |-> << >>]
    ELSE DataFrame([i \in 1..Len(p) |->
                      RowDict(RowFrame(p[i], target, rate, hists[i], t))])

\* st.session_state: the keys present, and the values of those keys.
SessionEmpty ==
    [keys |-> {},
     force_refresh_market_data |-> FALSE,
     last_market_data |-> DataFrame(<< >>),
     last_total_val |-> Q(0),
     last_currency |-> None]

SetKey(s, k) == [s EXCEPT !.keys = @ \cup {k}]

\* Mutant: a change of the display currency is not noticed.
currency_changed_Never(s, target) == FALSE

\* Line 554.
currency_changed(s, target) ==
    "last_currency" \in s.keys /\ s.last_currency # target

\* Lines 530-536: need_fetch, and the session after the two flags are set.
need_fetch_of(s) ==
    IF "market_data_fetched" \notin s.keys THEN TRUE
    ELSE "force_refresh_market_data" \in s.keys /\ s.force_refresh_market_data

FlagsAfter(s) ==
    IF "market_data_fetched" \notin s.keys
    THEN SetKey(s, "market_data_fetched")
    ELSE IF "force_refresh_market_data" \in s.keys
              /\ s.force_refresh_market_data
         THEN [s EXCEPT !.force_refresh_market_data = FALSE]
         ELSE s

\* Lines 539-551 and 555-564: the table is built and cached; fetched is
\* what get_market_data returns, or raises, if it is called.
FetchAndCache(s, target, p, fetched) ==
    LET called == p # << >>
        df == IF called THEN fetched ELSE DataFrame(<< >>)
    IN  IF df.kind = "raise"
        THEN [session |-> s, df_all |-> DataFrame(<< >>),
              total_val |-> Q(0), calls |-> 1, raised |-> TRUE]
        ELSE [session |->
                [SetKey(SetKey(SetKey(s, "last_market_data"),
                               "last_total_val"), "last_currency")
                   EXCEPT !.last_market_data = df,
                          !.last_total_val = NetValueTotal(df),
                          !.last_currency = target],
              df_all |-> df, total_val |-> NetValueTotal(df),
              calls |-> IF called THEN 1 ELSE 0, raised |-> FALSE]

\* Lines 528-568: the market data of one run of the script.
market_data_section(s, target, p, fetched) ==
    LET s1 == FlagsAfter(s)
    IN  IF need_fetch_of(s) \/ currency_changed(s1, target)
        THEN FetchAndCache(s1, target, p, fetched)
        ELSE [session |-> s1,
              df_all |-> s1.last_market_data,
              total_val |-> s1.last_total_val,
              calls |-> 0, raised |-> FALSE]

\* The quote source, for the holdings of a run.
AppHistories == { HistRaise, HistRows(<< 7, 9 >>) }

\* state.portfolio: no holding, or a stale US stock with a debt in TWD, or
\* a Taiwanese stock with a loan in USD.
AppPortfolios ==
    { << >> } \cup { Window(i, MaxHoldings) : i \in {1, 5} }

AppNotRun ==
    [runs |-> 0, df_all |-> DataFrame(<< >>), total_val |-> Q(0),
     calls |-> 0, raised |-> FALSE]

\* One run of the script: the first one loads the holdings and sets the
\* refresh flag (lines 217-219) and shows the first currency of the radio
\* (line 517); a later one shows the currency the user has selected.
ScriptRun ==
    /\ app.runs < MaxRuns
    /\ \E c \in Targets, rate \in ValRates,
          hists \in [1..Len(portfolio) -> AppHistories] :
         \E fetched \in { get_market_data(portfolio, c, rate, hists, now) } :
         LET s0 == IF app.runs = 0
                   THEN [SetKey(session, "force_refresh_market_data")
                           EXCEPT !.force_refresh_market_data = TRUE]
                   ELSE session
         IN
         \E r \in { market_data_section(s0, c, portfolio, fetched) } :
             /\ app.runs = 0 => c = "Auto"
             /\ target_currency' = c
             /\ usd_twd_rate' = rate
             /\ session' = r.session
             /\ app' = [runs |-> app.runs + 1, df_all |-> r.df_all,
                        total_val |-> r.total_val, calls |-> r.calls,
                        raised |-> r.raised]
    /\ UNCHANGED << now, portfolio, portfolio0, now0, pc, futures,
                    success_count, fail_count, ret, fetch_calls, writes,
                    retryVars, rateVars, data_list, frames, fnVars,
                    poolVars, prev_call, saved >>

\* A handler of one of the tabs, after line 568, asks for a refresh of the
\* market data in the next run.
UiForcesRefresh ==
    /\ app.runs > 0
    /\ app.runs < MaxRuns
    /\ ~("force_refresh_market_data" \in session.keys
           /\ session.force_refresh_market_data)
    /\ session' = [SetKey(session, "force_refresh_market_data")
                     EXCEPT !.force_refresh_market_data = TRUE]
    /\ UNCHANGED << now, portfolio, portfolio0, now0, pc, futures,
                    success_count, fail_count, ret, fetch_calls, writes,
                    retryVars, rateVars, valVars, fnVars, poolVars,
                    prev_call, saved, app >>

InitApp ==
    /\ now = NowInit
    /\ now0 = now
    /\ portfolio \in AppPortfolios
    /\ portfolio0 = portfolio
    /\ writes = << >>
    /\ UpdIdle
    /\ RetryRateIdle
    /\ target_currency = "Auto"
    /\ usd_twd_rate = default_exchange_rate
    /\ data_list = << >>
    /\ frames = << >>
    /\ FnIdle
    /\ PoolIdle
    /\ prev_call = NoValue
    /\ saved = << >>
    /\ session = SessionEmpty
    /\ app = AppNotRun

NextApp == ScriptRun \/ UiForcesRefresh

SpecApp == InitApp /\ [][NextApp]_vars

---------------------------------------------------------------------------
(* SpecRate: get_exchange_rate, wrapped by retry_with_backoff and then by  *)
(* st.cache_data(ttl=3600), called from several threads.                   *)

\* Latest closes of "TWD=X", in tenths: 31.0, and 0 for a close that is
\* not a positive number (0.0, or the NaN of a day without a trade).
Rates == {0, 310}

\* What the quote source does for "TWD=X": rows (latest close `close`), no
\* rows, or an exception.
RateResponses ==
    { [hist |-> "rows", close |-> r] : r \in Rates }
      \cup { [hist |-> "empty", close |-> 0], [hist |-> "raise", close |-> 0] }

\* Mutant: the failure of the quote source is not handled.
get_exchange_rate_body_Unhandled(resp) ==
    IF resp.hist = "rows" THEN [kind |-> "return", val |-> resp.close]
    ELSE IF resp.hist = "empty"
    THEN [kind |-> "return", val |-> default_exchange_rate]
    ELSE [kind |-> "raise", exc |-> "quote source"]

\* Lines 57-68: the body the decorators wrap.
get_exchange_rate_body(resp) ==
    IF resp.hist = "rows" THEN [kind |-> "return", val |-> resp.close]
    ELSE [kind |-> "return", val |-> default_exchange_rate]

\* Mutant: the entry is never served (the function is not memoized).
CacheFresh_Never(c, t) == FALSE

\* st.cache_data(ttl=3600): the entry is served until ttl seconds after it
\* was stored.
CacheFresh(c, t) == c.present /\ t < c.stored_at + CacheTTL

CallerIdle == [pc |-> "idle", start |-> 0, fetches |-> 0, w |-> NewWrapper]

CallRecord(start, end, val, raised, fetches, miss, stored, resp) ==
    [start |-> start, end |-> end, val |-> val, raised |-> raised,
     fetches |-> fetches, miss |-> miss, stored |-> stored, resp |-> resp]

LogCall(rec) == [rate_log EXCEPT !.calls = Append(@, rec)]

\* A thread calls get_exchange_rate(): a fresh entry is returned at once;
\* otherwise the thread goes for the entry's compute lock.
RateCall(c) ==
    /\ callers[c].pc = "idle"
    /\ rate_log.started < MaxRateCalls
    /\ IF CacheFresh(cache, timer)
       THEN /\ rate_log' = [LogCall(CallRecord(timer, timer, cache.value,
                                     FALSE, 0, FALSE, FALSE, "none"))
                              EXCEPT !.started = @ + 1]
            /\ UNCHANGED callers
       ELSE /\ callers' = [callers EXCEPT ![c] =
                             [CallerIdle EXCEPT !.pc = "waiting",
                                                !.start = timer]]
            /\ rate_log' = [rate_log EXCEPT !.started = @ + 1]
    /\ UNCHANGED << now, updVars, retryVars, valVars, fnVars, timer, cache, lock,
                poolVars, appVars >>

\* The thread gets the compute lock and reads the cache again: another
\* thread may have stored the value meanwhile.
RateAcquire(c) ==
    /\ callers[c].pc = "waiting"
    /\ lock = 0
    /\ IF CacheFresh(cache, timer)
       THEN /\ rate_log' = LogCall(CallRecord(callers[c].start, timer,
                                     cache.value, FALSE, 0, TRUE, FALSE,
                                     "none"))
            /\ callers' = [callers EXCEPT ![c] = CallerIdle]
            /\ UNCHANGED lock
       ELSE /\ callers' = [callers EXCEPT ![c].pc = "computing"]
            /\ lock' = c
            /\ UNCHANGED rate_log
    /\ UNCHANGED << now, updVars, retryVars, valVars, fnVars, timer, cache,
                poolVars, appVars >>

\* One attempt of the retry wrapper around the body, under the lock; a
\* returned value is stored and the lock released.
RateAttempt(c) ==
    /\ callers[c].pc = "computing"
    /\ \E resp \in RateResponses :
         LET w == WrapperStep(callers[c].w, get_exchange_rate_body(resp),
                              FetchRetries)
             n == callers[c].fetches + 1
         IN  IF w.status = "running"
             THEN /\ callers' = [callers EXCEPT ![c].w = w, ![c].fetches = n]
                  /\ UNCHANGED << cache, lock, rate_log >>
             ELSE IF w.status = "returned"
             THEN /\ cache' = [present |-> TRUE, value |-> w.value.val,
                               stored_at |-> timer]
                  /\ lock' = 0
                  /\ rate_log' = LogCall(CallRecord(callers[c].start, timer,
                                           w.value.val, FALSE, n, TRUE, TRUE,
                                           resp.hist))
                  /\ callers' = [callers EXCEPT ![c] = CallerIdle]
             ELSE /\ lock' = 0
                  /\ rate_log' = LogCall(CallRecord(callers[c].start, timer,
                                           0, TRUE, n, TRUE, FALSE,
                                           resp.hist))
                  /\ callers' = [callers EXCEPT ![c] = CallerIdle]
                  /\ UNCHANGED cache
    /\ UNCHANGED << now, updVars, retryVars, valVars, fnVars, timer,
                poolVars, appVars >>

\* The cache's clock advances.
RateTick ==
    /\ rate_log.ticks < MaxRateTicks
    /\ \E d \in {1, CacheTTL - 1} : timer' = timer + d
    /\ rate_log' = [rate_log EXCEPT !.ticks = @ + 1]
    /\ UNCHANGED << now, updVars, retryVars, valVars, fnVars, cache, lock, callers,
                poolVars, appVars >>

InitRate ==
    /\ now = NowInit
    /\ portfolio = << >>
    /\ portfolio0 = << >>
    /\ now0 = now
    /\ pc = "idle"
    /\ futures = << >>
    /\ success_count = 0
    /\ fail_count = 0
    /\ ret = NoValue
    /\ fetch_calls = 0
    /\ writes = << >>
    /\ retry = RetryIdle
    /\ retry_log = << >>
    /\ timer = 0
    /\ cache = CacheEmpty
    /\ lock = 0
    /\ callers = [c \in 1..MaxCallers |-> CallerIdle]
    /\ rate_log = RateLogEmpty
    /\ ValIdle
    /\ FnIdle
    /\ PoolIdle
    /\ AppIdle

NextRate ==
    \/ \E c \in DOMAIN callers : RateCall(c)
    \/ \E c \in DOMAIN callers : RateAcquire(c)
    \/ \E c \in DOMAIN callers : RateAttempt(c)
    \/ RateTick

SpecRate == InitRate /\ [][NextRate]_vars

---------------------------------------------------------------------------
(* Claims about retry_with_backoff, checked under SpecRetry *)

CallEvents == { i \in DOMAIN retry_log : retry_log[i].ev = "call" }

\* C9 as stated: one call of a function wrapped with retries = 3 invokes
\* the function at most 3 times in total, the first attempt included.
C9_AtMostRetriesCalls ==
    retry.w.status # "idle" => retry.w.calls <= retry.retries

\* C9, amended: one call of a function wrapped with retries = 3 invokes the
\* function at most retries + 1 = 4 times in total, and every sleep lies
\* between two consecutive attempts.
C9_AtMostRetriesPlusOneCalls ==
    /\ retry.w.calls <= retry.retries + 1
    /\ Cardinality(CallEvents) = retry.w.calls
    /\ \A i \in DOMAIN retry_log :
         retry_log[i].ev = "sleep" =>
           /\ i > 1
           /\ retry_log[i - 1].ev = "call"
           /\ i < Len(retry_log) => retry_log[i + 1].ev = "call"
           /\ i = Len(retry_log) => retry.w.status = "running"

C9_Witness ==
    /\ retry.w.status = "raised"
    /\ retry.retries = 3
    /\ retry.w.calls = 4
    /\ retry.w.sleeps = 3

\* C10: the wrapper returns the result of the first attempt that does not
\* raise, with no attempt or sleep after it; when every attempt raises, the
\* exception of the last attempt reaches the caller, with no sleep after it.
C10_FirstResultOrLastException ==
    LET n == Len(retry_log)
        earlier == { i \in CallEvents : i < n }
    IN  /\ retry.w.status = "running" =>
             \A i \in CallEvents : retry_log[i].out.kind = "raise"
        /\ retry.w.status = "returned" =>
             /\ n >= 1
             /\ retry_log[n].ev = "call"
             /\ retry_log[n].out.kind = "return"
             /\ retry.w.value = retry_log[n].out
             /\ \A i \in earlier : retry_log[i].out.kind = "raise"
        /\ retry.w.status = "raised" =>
             /\ n >= 1
             /\ retry_log[n].ev = "call"
             /\ retry_log[n].out.kind = "raise"
             /\ retry.w.value = retry_log[n].out
             /\ \A i \in earlier : retry_log[i].out.kind = "raise"

C10_Witness ==
    /\ retry.w.status = "raised"
    /\ retry_log[1].out = [kind |-> "raise", exc |-> "e1"]
    /\ retry.w.value = [kind |-> "raise", exc |-> "e2"]

---------------------------------------------------------------------------
(* Claims about auto_update_portfolio, checked under Spec *)

Finished == { t \in DOMAIN futures : futures[t].state \in {"done", "collected"} }
Collected == { t \in DOMAIN futures : futures[t].state = "collected" }
Succeeded == { t \in Finished : futures[t].result.kind = "return"
                                 /\ futures[t].result.ok }
Failed == { t \in Finished : futures[t].result.kind = "return"
                              /\ ~futures[t].result.ok }
Raised == { t \in Finished : futures[t].result.kind = "raise" }
TasksFor(i) == { t \in DOMAIN futures : futures[t].index = i }

\* C1: for every holdings list and completion order the call returns
\* success_count = the number of submitted fetches that reported success and
\* fail_count = the number that reported failure or raised; the two add up
\* to the number of fetches, and the call returns normally also when every
\* fetch fails.
C1_CountsMatchOutcomes ==
    /\ pc # "raised"
    /\ success_count = Cardinality(Succeeded \cap Collected)
    /\ fail_count = Cardinality((Failed \cup Raised) \cap Collected)
    /\ pc = "returned" =>
         /\ ret.success = Cardinality(Succeeded)
         /\ ret.fail = Cardinality(Failed \cup Raised)
         /\ ret.success + ret.fail = Len(futures)

C1_Witness ==
    /\ pc = "returned"
    /\ Len(futures) = 2
    /\ ret.success = 0
    /\ ret.fail = 2
    /\ Raised # {}
    /\ Failed # {}

\* C2 as stated: for a holding whose category is cash or liability no fetch
\* task is dispatched and manual_price and last_update are never modified.
C2_CashAndLiabilityNeverFetched ==
    \A i \in DOMAIN portfolio0 :
      IsFinancial(portfolio0[i]) =>
        /\ TasksFor(i) = {}
        /\ portfolio[i] = portfolio0[i]

FrameKeys == {"manual_price", "last_update", "Manual_Price", "Last_Update"}

\* C3: the call returns the list it was given, same length and order; only
\* manual_price and last_update (and the legacy aliases that exist) of the
\* holdings whose fetch succeeded change; every other holding is identical;
\* quantity and avg_cost are never written.
C3_OnlyPriceAndTimestampOfSuccesses ==
    /\ Len(portfolio) = Len(portfolio0)
    /\ pc = "returned" => ret.list = "portfolio"
    /\ \A i \in DOMAIN portfolio0 :
         IF TasksFor(i) \cap Succeeded \cap Collected = {}
         THEN portfolio[i] = portfolio0[i]
         ELSE /\ DOMAIN portfolio[i]
                   = DOMAIN portfolio0[i] \cup {"manual_price", "last_update"}
              /\ \A k \in DOMAIN portfolio0[i] \ FrameKeys :
                   portfolio[i][k] = portfolio0[i][k]
              /\ portfolio[i].quantity >= 0
              /\ portfolio[i].avg_cost >= 0

C3_Witness ==
    /\ pc = "returned"
    /\ \E i, j \in DOMAIN portfolio :
         /\ "Manual_Price" \in DOMAIN portfolio[i]
         /\ portfolio[i].Manual_Price # portfolio0[i].Manual_Price
         /\ TasksFor(j) \cap (Failed \cup Raised) # {}

\* C4: each successful result is written to the holding at the index its
\* task was submitted for: manual_price is the fetched price and last_update
\* names the minute of the clock at that moment; no two tasks share a
\* holding and no holding is written twice in one call.
C4_ResultWrittenToItsOwnHolding ==
    /\ \A t1, t2 \in DOMAIN futures :
         futures[t1].index = futures[t2].index => t1 = t2
    /\ \A i \in DOMAIN writes :
         /\ writes[i] <= 1
         /\ writes[i] = Cardinality(TasksFor(i) \cap Succeeded \cap Collected)
    /\ \A t \in Succeeded \cap Collected :
         LET item == portfolio[futures[t].index]
             at == futures[t].at
         IN  /\ item.manual_price = futures[t].result.price
             /\ item.last_update.kind = "ts"
             /\ item.last_update.minute * TicksPerMinute <= at
             /\ at < (item.last_update.minute + 1) * TicksPerMinute

C4_Witness ==
    /\ pc = "returned"
    /\ Cardinality(Succeeded) = 2
    /\ \E t1, t2 \in Succeeded :
         /\ futures[t1].ticker = futures[t2].ticker
         /\ futures[t1].result.price # futures[t2].result.price
         /\ futures[t1].at # futures[t2].at
         /\ futures[t1].at > now0
         /\ portfolio[futures[t1].index].last_update # strftime(now0)

Fresh(item, t) == ~check_is_outdated(ItemLastUpdate(item), t)

\* C5 as stated: when every holding is fresh or is cash or liability (or the
\* list is empty) the call returns (0, 0, holdings), with the holdings
\* unchanged, zero fetch_price calls and no worker task.
C5_NoCandidateNoFetch ==
    (/\ pc # "idle"
     /\ \A i \in DOMAIN portfolio0 :
          IsFinancial(portfolio0[i]) \/ Fresh(portfolio0[i], now0))
    => /\ pc = "returned"
       /\ ret = [success |-> 0, fail |-> 0, list |-> "portfolio"]
       /\ futures = << >>
       /\ fetch_calls = 0
       /\ portfolio = portfolio0

\* C6: an exception raised by a fetch task is caught where its result is
\* read, counted as one failure and never reaches the caller; all other
\* results are still collected and applied.
C6_TaskExceptionIsOneFailure ==
    /\ pc # "raised"
    /\ success_count + fail_count = Cardinality(Collected)
    /\ \A t \in Raised \cap Collected :
         portfolio[futures[t].index] = portfolio0[futures[t].index]
    /\ pc = "returned" =>
         /\ Collected = DOMAIN futures
         /\ \A t \in Succeeded :
              portfolio[futures[t].index].manual_price = futures[t].result.price

C6_Witness ==
    /\ pc = "returned"
    /\ \E t1, t2 \in DOMAIN futures :
         /\ t1 \in Raised
         /\ t2 \in Succeeded
         /\ futures[t1].at < futures[t2].at

---------------------------------------------------------------------------
(* Claims about get_exchange_rate, checked under SpecRate *)

Calls == rate_log.calls

\* The TTL window opened by the value call j stored.
InWindow(t, j) == Calls[j].end <= t /\ t < Calls[j].end + CacheTTL

\* Another call stored a value while call k was in progress.
OthersStored(k) ==
    \E j \in DOMAIN Calls :
      /\ j # k
      /\ Calls[j].stored
      /\ Calls[k].start <= Calls[j].end
      /\ Calls[j].end <= Calls[k].end

\* C7: calls made within one TTL window, one after the other or overlapping,
\* return the identical value and together issue at most one fetch; the
\* first call after the window has expired issues exactly one refetch.
C7_OneFetchPerWindow ==
    /\ \A j \in DOMAIN Calls :
         Calls[j].stored =>
           /\ \A k \in DOMAIN Calls :
                InWindow(Calls[k].end, j) =>
                  ~Calls[k].raised /\ Calls[k].val = Calls[j].val
           /\ \A k1, k2 \in DOMAIN Calls :
                (k1 # k2 /\ InWindow(Calls[k1].end, j)
                         /\ InWindow(Calls[k2].end, j))
                  => Calls[k1].fetches + Calls[k2].fetches <= 1
    /\ \A k \in DOMAIN Calls :
         /\ Calls[k].fetches <= 1
         /\ (Calls[k].miss /\ ~OthersStored(k)) =>
              Calls[k].fetches = 1 /\ Calls[k].stored

C7_Witness ==
    \E k1, k2, k3 \in DOMAIN Calls :
      /\ Calls[k1].stored
      /\ Calls[k2].miss
      /\ Calls[k2].fetches = 0
      /\ Calls[k2].start <= Calls[k1].end
      /\ Calls[k2].end >= Calls[k1].end
      /\ Calls[k3].start >= Calls[k1].end + CacheTTL
      /\ Calls[k3].fetches = 1
      /\ Calls[k3].val # Calls[k1].val

\* C8: when the quote source raises or has no rows for the pair,
\* get_exchange_rate does not raise; it returns default_exchange_rate, which
\* is cached and returned to every later call of the same TTL window.
C8_FallbackIsReturnedAndCached ==
    \A k \in DOMAIN Calls :
      /\ ~Calls[k].raised
      /\ Calls[k].resp \in {"raise", "empty"} =>
           /\ Calls[k].val = default_exchange_rate
           /\ Calls[k].stored
           /\ \A k2 \in DOMAIN Calls :
                InWindow(Calls[k2].end, k) =>
                  Calls[k2].val = default_exchange_rate

C8_Witness ==
    \E k, k2 \in DOMAIN Calls :
      /\ Calls[k].resp = "raise"
      /\ Calls[k].val = default_exchange_rate
      /\ Calls[k2].start > Calls[k].end
      /\ Calls[k2].fetches = 0
      /\ Calls[k2].val = default_exchange_rate


---------------------------------------------------------------------------
(* Claims about fetch_single_price (SpecFetch) *)

\* C11: whenever the quote source answers a call of fetch_single_price
\* (and no exception escapes the function's own handler), the call returns
\* and does not raise: (TRUE, latest close, None) when the history has
\* rows; (TRUE, fast price, None) when the history is empty and fast_info
\* gives a positive price; (FALSE, 0, reason) with a reason that is not
\* None in every other case, an exception of the quote source included.
\* The decorated function returns that tuple at once.
C11_FetchPriceContract ==
    \A i \in DOMAIN retry_log :
        LET e == retry_log[i]
        IN  (e.ev = "call" /\ ~e.resp.escapes) =>
              /\ e.out.kind = "return"
              /\ IF e.resp.hist = "rows"
                 THEN e.out.ok /\ e.out.price = e.resp.close
                      /\ e.out.err = None
                 ELSE IF e.resp.hist = "empty" /\ ~e.resp.fast_raises
                         /\ e.resp.fast > 0
                 THEN e.out.ok /\ e.out.price = e.resp.fast
                      /\ e.out.err = None
                 ELSE ~e.out.ok /\ e.out.price = 0 /\ e.out.err # None
              /\ i = Len(retry_log)
              /\ retry.w.status = "returned"
              /\ call_result = e.out

\* A call during which the quote source raised has returned a failure.
C11_Witness ==
    /\ retry_log # << >>
    /\ retry_log[Len(retry_log)].ev = "call"
    /\ retry_log[Len(retry_log)].resp.hist = "raise"
    /\ ~retry_log[Len(retry_log)].resp.escapes
    /\ call_result.kind = "return"
    /\ ~call_result.ok
    /\ call_result.err # None


---------------------------------------------------------------------------
(* Claims about check_is_outdated (SpecStale) *)

\* C12: check_is_outdated returns and never raises; it returns TRUE for
\* "N/A", for an empty or missing string and for a string that does not
\* parse as "%Y-%m-%d %H:%M"; for a string that parses it returns TRUE
\* exactly when the clock minus the parsed time is strictly greater than
\* price_update_threshold_days days, so that a timestamp exactly one
\* threshold old is not stale.
C12_StaleIffStrictlyOlderThanThreshold ==
    call_result # NoValue =>
        LET s == call_args.last_update_str
        IN  /\ call_result.kind = "return"
            /\ IF s.kind = "ts"
               THEN call_result.val
                      <=> (now - s.minute * TicksPerMinute
                             > price_update_threshold_days * 24 * 60
                                 * TicksPerMinute)
               ELSE call_result.val = TRUE

\* A timestamp exactly one threshold old has been found not stale.
C12_Witness ==
    /\ call_result # NoValue
    /\ call_args.last_update_str.kind = "ts"
    /\ now - call_args.last_update_str.minute * TicksPerMinute
         = price_update_threshold_days * 24 * 60 * TicksPerMinute
    /\ call_result.val = FALSE


---------------------------------------------------------------------------
(* Claims about get_market_data (SpecVal) *)

\* The rows built so far, each with the locals of its turn of the loop.
BuiltRows == DOMAIN frames \cap DOMAIN data_list

\* C13: in every row, whatever the price tier, Net_Value = -Market_Value
\* and Unrealized_PL = Total_Cost - Market_Value when the holding's
\* category is liability, and Net_Value = Market_Value and
\* Unrealized_PL = Market_Value - Total_Cost when it is investment or cash.
C13_LiabilitySign ==
    \A i \in BuiltRows :
        LET row == data_list[i]
        IN  IF AssetCategory(frames[i].item) = "liability"
            THEN /\ row.Net_Value = RNeg(row.Market_Value)
                 /\ row.Unrealized_PL
                      = RSub(row.Total_Cost, row.Market_Value)
            ELSE /\ row.Net_Value = row.Market_Value
                 /\ row.Unrealized_PL
                      = RSub(row.Market_Value, row.Total_Cost)

\* A liability with a positive market value has a negative net value.
C13_Witness ==
    \E i \in BuiltRows :
        /\ AssetCategory(frames[i].item) = "liability"
        /\ data_list[i].Market_Value.n > 0
        /\ data_list[i].Net_Value.n < 0
        /\ data_list[i].Unrealized_PL.n # 0


\* C14: for asset and base currencies in {USD, TWD}, rate_multiplier is 1
\* when the two are equal, usd_twd_rate for a USD holding valued in TWD,
\* and the inverse of usd_twd_rate for a TWD holding valued in USD, except
\* that a zero rate gives 1 and no division.
C14_RateMultiplier ==
    \A i \in DOMAIN frames :
        LET f == frames[i]
            m == f.rate_multiplier
        IN  /\ f.asset_currency \in {"USD", "TWD"}
            /\ f.base_currency \in {"USD", "TWD"}
            /\ m # DivError
            /\ f.asset_currency = f.base_currency => m = Q(1)
            /\ (f.asset_currency = "USD" /\ f.base_currency = "TWD")
                 => m.n * 10 = usd_twd_rate * m.d
            /\ (f.asset_currency = "TWD" /\ f.base_currency = "USD")
                 => IF usd_twd_rate = 0 THEN m = Q(1)
                    ELSE m.n * usd_twd_rate = 10 * m.d

\* A TWD holding has been valued in USD at a zero rate, without an
\* exception.
C14_Witness ==
    \E i \in DOMAIN frames :
        /\ frames[i].asset_currency = "TWD"
        /\ frames[i].base_currency = "USD"
        /\ usd_twd_rate = 0
        /\ frames[i].rate_multiplier = Q(1)
        /\ pc # "raised"

\* C15: in every row Market_Value = (resolved price * rate multiplier)
\* * quantity and Total_Cost = (avg_cost * rate multiplier) * quantity,
\* the multiplier being the same for both.
C15_ValueAndCost ==
    \A i \in BuiltRows :
        LET f == frames[i]
            row == data_list[i]
            m == f.rate_multiplier
        IN  /\ row.Market_Value.n * (f.current_price.d * m.d)
                 = f.current_price.n * m.n * f.qty * row.Market_Value.d
            /\ row.Total_Cost.n * m.d
                 = f.avg_cost * m.n * f.qty * row.Total_Cost.d

\* A row whose price and cost were both converted at a rate other than 1.
C15_Witness ==
    \E i \in BuiltRows :
        /\ frames[i].rate_multiplier \notin {Q(0), Q(1)}
        /\ data_list[i].Market_Value.n > 0
        /\ data_list[i].Total_Cost.n > 0
        /\ data_list[i].Total_Cost # Q(frames[i].avg_cost * frames[i].qty)

\* C16: in every row ROI = Unrealized_PL / Total_Cost * 100 when
\* Total_Cost > 0 and ROI = 0 when Total_Cost <= 0, whatever the price,
\* the quantity and the category; no turn of the loop ends with a
\* ZeroDivisionError.
C16_RoiGuarded ==
    /\ pc # "raised"
    /\ \A i \in DOMAIN frames : FrameException(frames[i]) = None
    /\ \A i \in BuiltRows :
         LET row == data_list[i]
         IN  IF row.Total_Cost.n > 0
             THEN row.ROI.n * row.Total_Cost.n * row.Unrealized_PL.d
                    = 100 * row.Unrealized_PL.n
                        * row.ROI.d * row.Total_Cost.d
             ELSE row.ROI = Q(0)

\* A row without cost but with a profit has ROI 0.
C16_Witness ==
    \E i \in BuiltRows :
        /\ data_list[i].Total_Cost = Q(0)
        /\ data_list[i].Unrealized_PL.n # 0
        /\ data_list[i].ROI = Q(0)


\* C17: a holding whose category is cash or liability is priced at
\* manual_price when manual_price > 0 and at 1 otherwise, with status
\* manual and without a call of the quote source, whatever its
\* last_update.
C17_FinancialHoldingsPricedByHand ==
    \A i \in DOMAIN frames :
        LET f == frames[i]
        IN  AssetCategory(f.item) \in {"cash", "liability"} =>
              /\ f.current_price = IF f.manual_price > 0
                                   THEN Q(f.manual_price) ELSE Q(1)
              /\ f.status = StatusManual
              /\ f.quote_calls = 0
              /\ f.hist = NoValue

\* A cash holding without a price and without a timestamp is priced at 1,
\* and a stale liability at its manual price.
C17_Witness ==
    /\ \E i \in DOMAIN frames :
          /\ AssetCategory(frames[i].item) = "cash"
          /\ frames[i].manual_price = 0
          /\ frames[i].last_update = TsNA
          /\ frames[i].current_price = Q(1)
    /\ \E i \in DOMAIN frames :
          /\ AssetCategory(frames[i].item) = "liability"
          /\ frames[i].last_update = TsStale
          /\ frames[i].current_price = Q(frames[i].manual_price)

\* C18: an investment holding whose last_update is not stale and whose
\* manual_price is positive is priced at manual_price with status cached
\* and without a call of the quote source; the quote source is called only
\* for investment holdings that are stale or have manual_price = 0, once
\* each.
C18_CachedPriceNoFetch ==
    /\ \A i \in DOMAIN frames :
         LET f == frames[i]
             investment == AssetCategory(f.item) = "investment"
             stale == check_is_outdated(f.last_update, f.t)
         IN  /\ (investment /\ ~stale /\ f.manual_price > 0) =>
                   /\ f.current_price = Q(f.manual_price)
                   /\ f.status = StatusCached
                   /\ f.quote_calls = 0
             /\ f.quote_calls > 0 =>
                   investment /\ (stale \/ f.manual_price = 0)
    /\ fetch_calls
         = Cardinality({ i \in DOMAIN frames : frames[i].quote_calls > 0 })

\* A fresh, priced investment holding was served from the cache, and a
\* fresh one without a price was fetched.
C18_Witness ==
    /\ \E i \in DOMAIN frames :
          /\ frames[i].status = StatusCached
          /\ frames[i].last_update = TsFresh
          /\ frames[i].manual_price > 0
    /\ \E i \in DOMAIN frames :
          /\ frames[i].quote_calls = 1
          /\ frames[i].last_update = TsFresh
          /\ frames[i].manual_price = 0


\* C19: when the quote source is asked and gives rows, the row is priced
\* at the latest close with status live; when it raises or gives no rows,
\* the row is priced at manual_price with status manual/stale if
\* manual_price > 0 and at avg_cost with status cost-only otherwise; the
\* daily change of a row is not zero only if its status is live.
C19_LiveOrFallback ==
    /\ \A i \in DOMAIN frames :
         LET f == frames[i]
         IN  f.quote_calls > 0 =>
               IF f.hist.kind = "rows" /\ f.hist.close # << >>
               THEN /\ f.current_price = Q(f.hist.close[Len(f.hist.close)])
                    /\ f.status = StatusLive
               ELSE IF f.manual_price > 0
               THEN /\ f.current_price = Q(f.manual_price)
                    /\ f.status = StatusManualStale
               ELSE /\ f.current_price = Q(f.avg_cost)
                    /\ f.status = StatusCostOnly
    /\ \A i \in BuiltRows :
         data_list[i].Daily_Change # Q(0) =>
             data_list[i].Status = StatusLive

\* One fetch raised and the row fell back to its manual price; another
\* gave no rows and the row shows its cost.
C19_Witness ==
    /\ \E i \in BuiltRows :
          /\ frames[i].hist = HistRaise
          /\ frames[i].manual_price > 0
          /\ data_list[i].Status = StatusManualStale
    /\ \E i \in BuiltRows :
          /\ frames[i].hist = HistRows(<< >>)
          /\ frames[i].manual_price = 0
          /\ data_list[i].Status = StatusCostOnly
          /\ frames[i].current_price = Q(frames[i].avg_cost)

\* C20: when the caller asks for "Auto", the display price, cost basis,
\* market value, total cost and P/L of a row are the holding's own price,
\* avg_cost and their products with the quantity, without the rate
\* multiplier; for any other target each display field equals the
\* base-currency field of the same row.
C20_DisplayFields ==
    \A i \in BuiltRows :
        LET f == frames[i]
            row == data_list[i]
            value == RMul(f.current_price, Q(f.qty))
            cost == Q(f.avg_cost * f.qty)
        IN  IF target_currency = "Auto"
            THEN /\ row.Display_Price = f.current_price
                 /\ row.Display_Cost_Basis = Q(f.avg_cost)
                 /\ row.Display_Market_Value = value
                 /\ row.Display_Total_Cost = cost
                 /\ row.Display_PL
                      = IF AssetCategory(f.item) = "liability"
                        THEN RSub(cost, value) ELSE RSub(value, cost)
                 /\ row.Display_Currency = f.asset_currency
            ELSE /\ row.Display_Price = row.Current_Price
                 /\ row.Display_Cost_Basis = row.Avg_Cost
                 /\ row.Display_Market_Value = row.Market_Value
                 /\ row.Display_Total_Cost = row.Total_Cost
                 /\ row.Display_PL = row.Unrealized_PL
                 /\ row.Display_Currency = target_currency

\* In "Auto" mode a USD holding shows its own price while its base fields
\* are converted; in "TWD" mode it shows the converted price.
C20_Witness ==
    \E i \in BuiltRows :
        /\ frames[i].asset_currency = "USD"
        /\ usd_twd_rate > 0
        /\ data_list[i].Market_Value.n > 0
        /\ \/ /\ target_currency = "Auto"
              /\ data_list[i].Display_Market_Value
                   # data_list[i].Market_Value
           \/ /\ target_currency = "TWD"
              /\ data_list[i].Display_Price # frames[i].current_price


\* C21: for every holdings list and every answer of the quote source
\* (exception, no rows, one close, several closes) get_market_data does
\* not raise and builds one row per holding, in the order of the list:
\* the i-th row is the row of the i-th holding, and the frame returned has
\* as many rows as the list has holdings.
C21_OneRowPerHoldingInOrder ==
    /\ pc # "raised"
    /\ Len(data_list) = Len(frames)
    /\ Len(data_list) <= Len(portfolio)
    /\ \A i \in DOMAIN data_list :
         /\ data_list[i].Ticker = ItemTicker(portfolio[i])
         /\ data_list[i].Type = ItemAssetType(portfolio[i])
         /\ data_list[i].Quantity = ItemQuantity(portfolio[i])
         /\ data_list[i].Currency = ItemCurrency(portfolio[i])
         /\ data_list[i].Last_Update = ItemLastUpdate(portfolio[i])
    /\ pc = "returned" =>
         /\ ret.kind = "DataFrame"
         /\ ret.rows = data_list
         /\ Len(ret.rows) = Len(portfolio)

\* A call has returned two rows although the quote source raised for the
\* first holding; the second got several closes.
C21_Witness ==
    /\ pc = "returned"
    /\ Len(ret.rows) = 2
    /\ frames[1].hist = HistRaise
    /\ frames[2].quote_calls = 1
    /\ frames[2].hist.kind = "rows"
    /\ Len(frames[2].hist.close) > 1


\* C29: get_market_data leaves every holding as it was, even when its
\* live fetch succeeds; so a holding found stale by one call is found
\* stale, and is fetched again, by the next call.
C29_HoldingsUnchanged ==
    /\ portfolio = portfolio0
    /\ prev_call # NoValue =>
         \A i \in DOMAIN frames :
             i \in prev_call.stale =>
                 /\ i \in prev_call.fetched
                 /\ frames[i].checked
                 /\ frames[i].is_outdated
                 /\ frames[i].quote_calls = 1

\* A stale holding whose live fetch succeeded in one call is fetched again
\* in the next.
C29_Witness ==
    /\ prev_call # NoValue
    /\ \E i \in DOMAIN frames :
          /\ i \in prev_call.stale
          /\ frames[i].quote_calls = 1
          /\ frames[i].status = StatusLive


---------------------------------------------------------------------------
(* Claims about the retries of fetch_single_price (SpecFetch) *)

\* C26: a lookup during which the quote source raises, or gives neither
\* rows nor a fast price, is followed by a further attempt against the
\* quote source: the decorated fetch_single_price reports a failure only
\* after it has called the quote source at least twice.
C26_TransientFailureRetried ==
    (retry.w.status = "returned" /\ ~call_result.ok) => retry.w.calls >= 2


---------------------------------------------------------------------------
(* Claims about the value of get_exchange_rate (SpecRate) *)

\* C27: every value a call of get_exchange_rate returns, be it fetched,
\* served from the cache or the default, is strictly greater than 0,
\* whatever the quote source answered.
C27_RateIsPositive ==
    \A i \in DOMAIN rate_log.calls :
        ~rate_log.calls[i].raised => rate_log.calls[i].val > 0


\* C24: the engine dispatches exactly one fetch task per candidate, in the
\* order of the candidates, and at every moment the number of fetch tasks
\* that are executing is at most the configured size of the pool.
C24_OneTaskPerCandidateBoundedPool ==
    /\ pc \in {"collect", "returned", "app_done"} =>
          LET items == outdated_items(portfolio0, now0)
          IN  /\ Len(futures) = Len(items)
              /\ \A t \in DOMAIN futures : futures[t].index = items[t]
    /\ Cardinality(Running) <= max_workers

C24_Witness ==
    /\ pc = "collect"
    /\ Len(futures) = 2
    /\ Cardinality(Running) = max_workers
    /\ \E t \in DOMAIN futures : futures[t].state = "pending"


\* C23: the engine never saves anything; the only step that saves is the
\* application's step after auto_update_portfolio has returned, and that
\* step saves all data, the updated holdings included, exactly when the
\* returned success count is greater than zero.
C23_SaveOnlyByAppWhenSuccess ==
    [][ /\ (saved' # saved) =>
              /\ pc = "returned"
              /\ pc' = "app_done"
              /\ saved' = Append(saved, portfolio)
              /\ portfolio' = portfolio
        /\ (pc = "returned" /\ pc' = "app_done") =>
              ((saved' # saved) <=> (ret.success > 0)) ]_vars

C23_Witness ==
    /\ pc = "app_done"
    /\ ret.success > 0
    /\ ret.fail > 0
    /\ saved = << portfolio >>
    /\ portfolio # portfolio0


\* C25: auto_update_portfolio returns only after every task it dispatched
\* has completed and has been counted; with threads that are scheduled and
\* quote-source calls that return or raise, a call that dispatched tasks
\* does return; and between the return and the next call no holding
\* changes.
C25_ReturnsAfterAllTasksAndTerminates ==
    /\ [](pc \in {"returned", "app_done"} =>
            /\ \A t \in DOMAIN futures : futures[t].state = "collected"
            /\ ret.success + ret.fail = Len(futures)
            /\ ret.success = Cardinality(Succeeded)
            /\ ret.fail = Cardinality(Failed \cup Raised))
    /\ [][(pc \in {"returned", "app_done", "idle"})
              => (portfolio' = portfolio)]_vars
    /\ (pc = "collect") ~> (pc = "returned")

C25_Witness ==
    /\ pc = "returned"
    /\ Len(futures) = 2
    /\ max_workers = 1
    /\ ret.success = 1
    /\ ret.fail = 1


\* The later refresh has scanned the holdings.
SecondCallScanned == first_call # NoValue /\ pc # "idle"

\* The holdings the later refresh dispatched a fetch for.
SecondCandidates == { futures[t].index : t \in DOMAIN futures }

\* The later refresh found nothing to do.
SecondCallIdle ==
    /\ SecondCandidates = {}
    /\ fetch_calls = 0
    /\ pc \in {"returned", "app_done"}
    /\ ret.success = 0
    /\ ret.fail = 0
    /\ portfolio = portfolio0

\* C28 as stated: when the second call starts less than the staleness
\* threshold after the first, every holding the first call updated is no
\* candidate of the second, every candidate whose fetch failed is a candidate
\* again, and if the first call fetched and none of its fetches failed the
\* second call returns (0, 0, holdings) without a fetch.
C28_Original ==
    (/\ SecondCallScanned
     /\ now0 - NowInit < price_update_threshold_days * DayTicks)
    => /\ first_call.updated \cap SecondCandidates = {}
       /\ (first_call.candidates \ first_call.updated) \subseteq SecondCandidates
       /\ (first_call.fail = 0 /\ first_call.success > 0) => SecondCallIdle

\* C28 amended: the same, when the second call starts at most the threshold
\* less one minute after the first, and, for the last part, when no holding
\* that the first call found fresh has a timestamp older than the threshold
\* at the second call.
C28_SecondCallWithinThreshold ==
    (/\ SecondCallScanned
     /\ now0 - NowInit
          <= price_update_threshold_days * DayTicks - TicksPerMinute)
    => /\ first_call.updated \cap SecondCandidates = {}
       /\ (first_call.candidates \ first_call.updated) \subseteq SecondCandidates
       /\ (/\ first_call.fail = 0
           /\ first_call.success > 0
           /\ \A i \in DOMAIN portfolio0 \ first_call.candidates :
                 Fresh(portfolio0[i], now0))
          => SecondCallIdle

C28_Witness ==
    /\ SecondCallScanned
    /\ now0 - NowInit > 60 * TicksPerMinute
    /\ now0 - NowInit
          <= price_update_threshold_days * DayTicks - TicksPerMinute
    /\ first_call.updated # {}
    /\ first_call.candidates \ first_call.updated # {}
    /\ pc = "collect"


\* The rows of the holdings that are liabilities, and the others.
LiabilityRows == { i \in DOMAIN portfolio : IsLiability(portfolio[i]) }
AssetRows == DOMAIN portfolio \ LiabilityRows

RECURSIVE SumOver(_, _, _)
SumOver(rows, col, S) ==
    IF S = {} THEN Q(0)
    ELSE LET i == CHOOSE x \in S : TRUE
         IN  RAdd(rows[i][col], SumOver(rows, col, S \ {i}))

\* The table of the run holds one row per holding, freshly built or cached.
TableShown == app.runs > 0 /\ ~app.raised /\ app.df_all.rows # << >>

\* C22: in every display mode the total net worth the application derives
\* is the sum of the rows' base-currency Net_Value, which is the base market
\* value of the rows that are not liabilities less that of the rows that
\* are; it is the total the session caches.
C22_TotalIsBaseNetWorth ==
    TableShown =>
       /\ Len(app.df_all.rows) = Len(portfolio)
       /\ app.total_val = SumColumn(app.df_all.rows, "Net_Value", 1)
       /\ app.total_val
            = RSub(SumOver(app.df_all.rows, "Market_Value", AssetRows),
                   SumOver(app.df_all.rows, "Market_Value", LiabilityRows))
       /\ session.last_total_val = app.total_val

\* Auto mode, a US stock with a live price and a debt in TWD: the sum of the
\* display values differs from the total.
C22_Witness ==
    /\ TableShown
    /\ target_currency = "Auto"
    /\ usd_twd_rate = default_exchange_rate
    /\ LiabilityRows # {}
    /\ \E i \in AssetRows : /\ app.df_all.rows[i].Status = StatusLive
                            /\ app.df_all.rows[i].Currency = "USD"
    /\ SumColumn(app.df_all.rows, "Display_Market_Value", 1) # app.total_val

\* The run about to start is a plain rerun showing currency c: not the
\* first run, no refresh asked for, the currency of the cached table.
PlainRerun(c) ==
    /\ "market_data_fetched" \in session.keys
    /\ ~("force_refresh_market_data" \in session.keys
           /\ session.force_refresh_market_data)
    /\ "last_currency" \in session.keys
    /\ session.last_currency = c

\* C30: at the end of every run last_currency is the selected currency, and
\* a plain rerun shows the cached table and total without a call of
\* get_market_data.
C30_CacheFollowsCurrency ==
    /\ [](app.runs > 0 =>
            /\ "last_currency" \in session.keys
            /\ session.last_currency = target_currency)
    /\ [][(app'.runs = app.runs + 1 /\ PlainRerun(target_currency'))
            => (/\ app'.calls = 0
                /\ app'.df_all = session.last_market_data
                /\ app'.total_val = session.last_total_val
                /\ session' = session)]_vars

C30_Witness ==
    /\ app.runs = MaxRuns
    /\ app.calls = 0
    /\ target_currency = "USD"
    /\ session.last_currency = "USD"
    /\ app.df_all.rows # << >>

===========================================================================
